---- MODULE Spec2Model ----
(***************************************************************************)
(* Balance Hub front end: the typed REST client (lib/api.ts) and the       *)
(* view-state orchestrator (App.tsx) as state machines.                    *)
(*                                                                         *)
(* Conventions.                                                            *)
(*  - A JavaScript string is a sequence of one-character strings, so that  *)
(*    trim() and the template `HTTP ${status}` are computed, not assumed.  *)
(*  - A nullable value is a sequence: <<>> is null, <<v>> holds v.         *)
(*  - An async function run is a task: a record with the handler's name    *)
(*    (op), its position (pc, the await it is suspended at), the values    *)
(*    its closure captured, and the requests it is waiting for.            *)
(*  - A request is "sent", then "served" (the backend has produced the     *)
(*    response, which is now on its way), then "delivered" (the awaiting   *)
(*    code has run).  Responses of different requests may be delivered in  *)
(*    any order.                                                           *)
(***************************************************************************)
EXTENDS Integers, Sequences, FiniteSets, TLC

VARIABLES
  call,                      \* the REST client call under observation (SpecClient)
  activeTab, bootLoading, notice,
  debtors, recurringExpenses, recurringTotals,
  pendingRecurringDelete, recurringForm, recurringEditing,
  unpaidByMonthLoading, unpaidByMonthResult,
  salarySnapshot, salaryPreviewAmount, salarySnapshotLoading,
  monthlyFreeAmountLoading, monthlyFreeAmountResult,
  debtCreationDebtorContext, debtorForm, debtForm, debtorMonthlyQuery,
  pendingDebtDelete, debtDetailModal, debtDetail, debtDetailLoading,
  debtDetailPage,
  boot,                      \* the loadInitialData run started by useEffect
  tasks,                     \* the other async handler runs, by slot
  server,                    \* the backend's data
  hist                       \* history (ghost) counters read only by properties

clientVars == <<call>>
recurringView == <<recurringExpenses, recurringTotals, pendingRecurringDelete,
                   recurringForm, recurringEditing>>
monthView == <<unpaidByMonthLoading, unpaidByMonthResult, salarySnapshot,
               salaryPreviewAmount, salarySnapshotLoading>>
freeView == <<monthlyFreeAmountLoading, monthlyFreeAmountResult>>
debtorView == <<debtors, debtCreationDebtorContext, debtorForm, debtForm,
                debtorMonthlyQuery>>
debtView == <<pendingDebtDelete, debtDetailModal, debtDetail, debtDetailLoading,
              debtDetailPage>>
viewVars == <<activeTab, bootLoading, notice, recurringView, monthView, freeView,
              debtorView, debtView>>
runVars == <<boot, tasks, server, hist>>
vars == <<clientVars, viewVars, runVars>>

(***************************************************************************)
(* Bounds of the model.                                                    *)
(***************************************************************************)
MaxMsgLen == 2        \* longest `message` string of an error body
MaxTasks == 2         \* handler runs in flight at once
MaxDebtors == 2       \* debtors the backend can hold
MaxExpenses == 2      \* recurring expenses the backend can hold
MaxDebts == 1         \* debts the backend can hold
MaxRuns == 3          \* handler calls made by the user in a behaviour
MaxRecurringRuns == 2 \* the same, on the recurring expenses tab

(***************************************************************************)
(* Strings.                                                                *)
(***************************************************************************)
Null == <<>>
Some(v) == <<v>>

Chars == {" ", "x"}
Strings(n) == UNION {[1..k -> Chars] : k \in 0..n}

RECURSIVE TrimStart(_)
TrimStart(s) == IF s # <<>> /\ Head(s) = " " THEN TrimStart(Tail(s)) ELSE s

RECURSIVE TrimEnd(_)
TrimEnd(s) ==
  IF s # <<>> /\ s[Len(s)] = " " THEN TrimEnd(SubSeq(s, 1, Len(s) - 1)) ELSE s

\* String.prototype.trim
Trim(s) == TrimEnd(TrimStart(s))

DigitChar(d) == <<"0", "1", "2", "3", "4", "5", "6", "7", "8", "9">>[d + 1]

\* the decimal numeral of a non-negative integer, as `${n}` prints it
RECURSIVE Numeral(_)
Numeral(n) ==
  IF n < 10 THEN <<DigitChar(n)>> ELSE Numeral(n \div 10) \o <<DigitChar(n % 10)>>

\* `HTTP ${response.status}`
HttpMessage(status) == <<"H", "T", "T", "P", " ">> \o Numeral(status)

(***************************************************************************)
(* The REST client: request and requestBlob.                               *)
(*                                                                         *)
(* What the network hands to a call is either a rejection of fetch itself  *)
(* or a response: a status and a body.  A body is empty, text that is not  *)
(* JSON, or JSON; a JSON value is null, a number, or an object whose       *)
(* `message` member is absent, a number or a string.  A success body is    *)
(* an object carrying the endpoint's data (member `data` here).            *)
(***************************************************************************)
Statuses == {200, 201, 204, 400, 404, 500}

MessageFields ==
  {[f |-> "absent", s |-> <<>>], [f |-> "num", s |-> <<>>]}
    \cup {[f |-> "str", s |-> s] : s \in Strings(MaxMsgLen)}

NoData == [d |-> "none"]

JsonValues ==
  {[j |-> "null", message |-> [f |-> "absent", s |-> <<>>], data |-> NoData],
   [j |-> "num", message |-> [f |-> "absent", s |-> <<>>], data |-> NoData]}
    \cup {[j |-> "obj", message |-> m, data |-> NoData] : m \in MessageFields}

Bodies ==
  {[t |-> "empty", v |-> <<>>], [t |-> "text", v |-> <<>>]}
    \cup {[t |-> "json", v |-> <<v>>] : v \in JsonValues}

NetworkFailure == [net |-> "rejected", status |-> 0, body |-> [t |-> "empty", v |-> <<>>]]
Response(status, body) == [net |-> "response", status |-> status, body |-> body]
JsonBody(data) ==
  [t |-> "json",
   v |-> <<[j |-> "obj", message |-> [f |-> "absent", s |-> <<>>], data |-> data]>>]

NetOutcomes ==
  {NetworkFailure} \cup {Response(s, b) : s \in Statuses, b \in Bodies}

\* Response.ok
ResponseOkOnly200(status) == status = 200
ResponseOk(status) == status >= 200 /\ status <= 299

\* Response.json(): the parsed value, or a SyntaxError
ResponseJson(body) ==
  IF body.t = "json" THEN [ok |-> TRUE, v |-> body.v[1]]
  ELSE [ok |-> FALSE, v |-> [j |-> "null", message |-> [f |-> "absent", s |-> <<>>], data |-> NoData]]

\* class ApiClientError extends Error { status }
ApiClientError(message, status) ==
  [cls |-> "ApiClientError", message |-> message, status |-> status]
\* what fetch rejects with, and what Response.json() rejects with: plain Errors
\* with no status member (status 0 stands for "undefined" here)
FetchTypeError == [cls |-> "TypeError", message |-> <<"f">>, status |-> 0]
JsonSyntaxError == [cls |-> "SyntaxError", message |-> <<"u">>, status |-> 0]

Return(v) == [ok |-> TRUE, value |-> v, err |-> [cls |-> "none", message |-> <<>>, status |-> 0]]
Throw(e) == [ok |-> FALSE, value |-> NoData, err |-> e]
Undefined == [d |-> "undefined"]
Blob == [d |-> "blob"]

\* typeof apiError.message === "string" && apiError.message.trim().length > 0
UsableMessageNoTrim(v) ==
  v.j = "obj" /\ v.message.f = "str" /\ Len(v.message.s) > 0
UsableMessage(v) ==
  v.j = "obj" /\ v.message.f = "str" /\ Len(Trim(v.message.s)) > 0

\* the try/catch of request: reading `.message` of null throws a TypeError, a
\* body that is not JSON throws a SyntaxError, and both are swallowed.
ErrorMessage(status, body) ==
  LET parsed == ResponseJson(body) IN
  IF ~parsed.ok THEN HttpMessage(status)
  ELSE IF parsed.v.j = "null" THEN HttpMessage(status)
  ELSE IF UsableMessage(parsed.v) THEN parsed.v.message.s
  ELSE HttpMessage(status)

requestUnguarded(net) ==
  IF net.net = "rejected" THEN Throw(FetchTypeError)
  ELSE IF ~ResponseOk(net.status)
    THEN LET parsed == ResponseJson(net.body) IN
         IF ~parsed.ok THEN Throw(JsonSyntaxError)
         ELSE IF parsed.v.j = "null" THEN Throw(FetchTypeError)
         ELSE Throw(ApiClientError(ErrorMessage(net.status, net.body), net.status))
  ELSE IF net.status = 204 THEN Return(Undefined)
  ELSE LET parsed == ResponseJson(net.body) IN
       IF parsed.ok THEN Return(parsed.v.data) ELSE Throw(JsonSyntaxError)

\* a request that parses the body of every 2xx response, 204 included
requestParsing204(net) ==
  IF net.net = "rejected" THEN Throw(FetchTypeError)
  ELSE IF ~ResponseOk(net.status)
    THEN Throw(ApiClientError(ErrorMessage(net.status, net.body), net.status))
  ELSE LET parsed == ResponseJson(net.body) IN
       IF parsed.ok THEN Return(parsed.v.data) ELSE Throw(JsonSyntaxError)

\* async function request<T>(path, options): what the call settles to, given
\* what the network handed to it
request(net) ==
  IF net.net = "rejected" THEN Throw(FetchTypeError)
  ELSE IF ~ResponseOk(net.status)
    THEN Throw(ApiClientError(ErrorMessage(net.status, net.body), net.status))
  ELSE IF net.status = 204 THEN Return(Undefined)
  ELSE LET parsed == ResponseJson(net.body) IN
       IF parsed.ok THEN Return(parsed.v.data) ELSE Throw(JsonSyntaxError)

\* async function requestBlob(path, options)
requestBlob(net) ==
  IF net.net = "rejected" THEN Throw(FetchTypeError)
  ELSE IF ~ResponseOk(net.status)
    THEN Throw(ApiClientError(HttpMessage(net.status), net.status))
  ELSE Return(Blob)

ClientFns == {"request", "requestBlob"}

CallIdle ==
  [pc |-> "idle", fn |-> "request", net |-> NetworkFailure,
   out |-> Return(Undefined), fetches |-> 0]

\* a caller invokes the client: the call runs to its `await fetch(...)`
ClientCall(fn) ==
  /\ call.pc = "idle"
  /\ call' = [CallIdle EXCEPT !.pc = "fetching", !.fn = fn, !.fetches = 1]
  /\ UNCHANGED <<viewVars, runVars>>

\* fetch settles and the rest of the call runs
ClientSettle(net) ==
  /\ call.pc = "fetching"
  /\ call' = [call EXCEPT !.pc = "settled", !.net = net,
                          !.out = IF call.fn = "request" THEN request(net)
                                  ELSE requestBlob(net)]
  /\ UNCHANGED <<viewVars, runVars>>

\* the caller has consumed the result; the client keeps nothing between calls
ClientForget ==
  /\ call.pc = "settled"
  /\ call' = CallIdle
  /\ UNCHANGED <<viewVars, runVars>>

(***************************************************************************)
(* The backend (not part of this repository): the data behind the          *)
(* endpoints of the client, changed only by this client's writes.          *)
(***************************************************************************)
\* getCurrentYear(), getCurrentMonth(): the clock's year and month
CurrentYear == 2024
CurrentMonth == 1

ExpenseTypes == {"FIXED", "OPTIONAL"}
DebtorIdOf(n) == <<"d1", "d2", "d3", "d4">>[n]
ExpenseIdOf(n) == <<"e1", "e2", "e3", "e4">>[n]

RECURSIVE SumAmounts(_)
SumAmounts(items) ==
  IF items = <<>> THEN 0 ELSE Head(items).amount + SumAmounts(Tail(items))

Ids(items) == {items[k].id : k \in 1..Len(items)}

ServerWith(debtorList, fixedList) ==
  [debtors |-> debtorList,
   recurring |-> [FIXED |-> fixedList, OPTIONAL |-> <<>>],
   madeDebtors |-> Len(debtorList),
   madeExpenses |-> Len(fixedList),
   installments |-> <<>>,
   madeDebts |-> 0,
   free |-> 4,
   snapshots |-> {}]

DebtId(n) == <<"b1", "b2", "b3">>[n]
InstallmentId(n) == <<"i1", "i2", "i3", "i4", "i5", "i6", "i7">>[n]

RECURSIVE SelectSeq2(_, _, _)
\* the items of a list that a test keeps, in order (Array.prototype.filter)
SelectSeq2(items, Keep(_), k) ==
  IF k > Len(items) THEN <<>>
  ELSE (IF Keep(items[k]) THEN <<items[k]>> ELSE <<>>) \o SelectSeq2(items, Keep, k + 1)
Filter(items, Keep(_)) == SelectSeq2(items, Keep, 1)

SnapshotKey(arg) == [debtorId |-> arg.debtorId, year |-> arg.year, month |-> arg.month]

\* the response the backend gives to a request it accepts: the data of its body
ServerData(api, arg, srv) ==
  CASE api = "listDebtors" -> [d |-> "debtors", debtors |-> srv.debtors]
    [] api = "listRecurringExpenses" ->
         [d |-> "recurringExpenses", recurringExpenses |-> srv.recurring[arg.type]]
    [] api = "getRecurringExpenseTotal" ->
         [d |-> "total", total |-> SumAmounts(srv.recurring[arg.type])]
    [] api = "getMonthlyFreeAmount" ->
         [d |-> "free", year |-> arg.year, monthlyFreeAmount |-> srv.free]
    [] api = "getUnpaidInstallmentsByMonth" ->
         LET Due(it) == /\ it.debtorId = arg.debtorId /\ ~it.paid
                        /\ it.year = arg.year /\ it.month = arg.month
         IN [d |-> "unpaid", debtorId |-> arg.debtorId, year |-> arg.year,
             month |-> arg.month, installments |-> Filter(srv.installments, Due)]
    [] api = "getSalarySnapshot" ->
         [d |-> "snapshot", debtorId |-> arg.debtorId, year |-> arg.year,
          month |-> arg.month, status |-> "PENDING"]
    [] api = "createDebtor" -> [d |-> "created", id |-> DebtorIdOf(srv.madeDebtors + 1)]
    [] api = "createRecurringExpense" ->
         [d |-> "created", id |-> ExpenseIdOf(srv.madeExpenses + 1)]
    [] api = "createDebt" -> [d |-> "created", id |-> DebtId(srv.madeDebts + 1)]
    [] api = "updateRecurringExpense" ->
         [d |-> "updated", id |-> arg.id, amount |-> arg.amount]
    [] api = "getDebtDetail" ->
         LET OfDebt(it) == it.debtId = arg.debtId
             its == Filter(srv.installments, OfDebt)
         IN [d |-> "debtDetail", id |-> its[1].debtorId,
             debt |-> [id |-> arg.debtId, installments |-> its]]
    [] OTHER -> NoData

ServerStatus(api) ==
  CASE api \in {"createDebtor", "createRecurringExpense", "createDebt"} -> 201
    [] api \in {"deleteRecurringExpense", "deleteDebt", "payInstallment"} -> 204
    [] OTHER -> 200

\* whether the backend carries the request out (it may always refuse or fail)
ServerAccepts(api, arg, srv) ==
  CASE api = "createDebtor" -> srv.madeDebtors < MaxDebtors
    [] api = "createRecurringExpense" -> srv.madeExpenses < MaxExpenses
    [] api \in {"updateRecurringExpense", "deleteRecurringExpense"} ->
         arg.id \in Ids(srv.recurring.FIXED) \cup Ids(srv.recurring.OPTIONAL)
    [] api = "createDebt" ->
         srv.madeDebts < MaxDebts /\ arg.debtorId \in Ids(srv.debtors)
    [] api = "getSalarySnapshot" -> SnapshotKey(arg) \in srv.snapshots
    [] api \in {"getDebtDetail", "deleteDebt"} ->
         \E k \in 1..Len(srv.installments) : srv.installments[k].debtId = arg.debtId
    [] api = "payInstallment" ->
         \E k \in 1..Len(srv.installments) :
           srv.installments[k].id = arg.id /\ ~srv.installments[k].paid
    [] OTHER -> TRUE

\* the debtor summaries once a debtor's pending debt has changed by an amount
Owing(debtorList, debtorId, change) ==
  [k \in 1..Len(debtorList) |->
     IF debtorList[k].id = debtorId
     THEN [debtorList[k] EXCEPT !.totalDebt = @ + change] ELSE debtorList[k]]

\* the backend's data after carrying the request out
ServerNext(api, arg, srv) ==
  CASE api = "createDebtor" ->
         [srv EXCEPT !.debtors = Append(@, [id |-> DebtorIdOf(srv.madeDebtors + 1),
                                            totalDebt |-> 0]),
                     !.madeDebtors = @ + 1]
    [] api = "createRecurringExpense" ->
         [srv EXCEPT !.recurring[arg.type] =
                        Append(@, [id |-> ExpenseIdOf(srv.madeExpenses + 1),
                                   amount |-> arg.amount]),
                     !.madeExpenses = @ + 1]
    [] api = "updateRecurringExpense" ->
         LET Upd(list) == [k \in 1..Len(list) |->
                             IF list[k].id = arg.id
                             THEN [list[k] EXCEPT !.amount = arg.amount] ELSE list[k]]
         IN [srv EXCEPT !.recurring = [FIXED |-> Upd(@.FIXED), OPTIONAL |-> Upd(@.OPTIONAL)]]
    [] api = "deleteRecurringExpense" ->
         LET Other(e) == e.id # arg.id
         IN [srv EXCEPT !.recurring = [FIXED |-> Filter(@.FIXED, Other),
                                       OPTIONAL |-> Filter(@.OPTIONAL, Other)]]
    [] api = "createDebt" ->
         [srv EXCEPT !.debtors = Owing(@, arg.debtorId, arg.totalAmount),
                     !.installments =
                        Append(@, [id |-> InstallmentId(srv.madeDebts + 1),
                                   debtId |-> DebtId(srv.madeDebts + 1),
                                   debtorId |-> arg.debtorId,
                                   amount |-> arg.totalAmount, paid |-> FALSE,
                                   year |-> CurrentYear, month |-> CurrentMonth]),
                     !.madeDebts = @ + 1]
    [] api = "payInstallment" ->
         LET it == CHOOSE x \in {srv.installments[k] : k \in 1..Len(srv.installments)} :
                     x.id = arg.id
         IN [srv EXCEPT !.debtors = Owing(@, it.debtorId, 0 - it.amount),
                        !.installments = [k \in 1..Len(@) |->
                                            IF @[k].id = arg.id
                                            THEN [@[k] EXCEPT !.paid = TRUE] ELSE @[k]]]
    [] api = "deleteDebt" ->
         LET OfDebt(x) == x.debtId = arg.debtId
             Unpaid(x) == x.debtId = arg.debtId /\ ~x.paid
             Kept(x) == x.debtId # arg.debtId
             its == Filter(srv.installments, OfDebt)
         IN [srv EXCEPT !.debtors = Owing(@, its[1].debtorId,
                                          0 - SumAmounts(Filter(srv.installments, Unpaid))),
                        !.installments = Filter(@, Kept)]
    [] OTHER -> srv

NotFound ==
  Response(404, [t |-> "json",
                 v |-> <<[j |-> "obj", message |-> [f |-> "str", s |-> <<"x">>],
                          data |-> NoData]>>])
ServerError == Response(500, [t |-> "empty", v |-> <<>>])

\* the failures a request can meet: the network, the backend, and for the
\* snapshot lookup the 404 of a snapshot that is not materialized yet
FailuresOf(api, arg, srv) ==
  IF api = "getSalarySnapshot"
  THEN {NetworkFailure, ServerError}
         \cup (IF SnapshotKey(arg) \in srv.snapshots THEN {} ELSE {NotFound})
  ELSE {NetworkFailure, ServerError}

\* the verb and the path of each operation of api; the parts of a path that
\* come from the arguments are written as {name}
Endpoint(op) ==
  CASE op = "listDebtors" -> [method |-> "GET", path |-> "/api/debtors"]
    [] op = "createDebtor" -> [method |-> "POST", path |-> "/api/debtors"]
    [] op = "createSalary" -> [method |-> "POST", path |-> "/api/salaries"]
    [] op = "createSavingsGoal" -> [method |-> "POST", path |-> "/api/savings-goals"]
    [] op = "getMonthlyFreeAmount" ->
         [method |-> "GET", path |-> "/api/financial-plan/monthly-free-amount?year={year}"]
    [] op = "getSalarySnapshot" ->
         [method |-> "GET",
          path |-> "/api/salary-snapshots?debtorId={debtorId}&year={year}&month={month}"]
    [] op = "payMonthlySalary" -> [method |-> "POST", path |-> "/api/salary-snapshots/pay"]
    [] op = "downloadMonthlySummaryPdf" ->
         [method |-> "GET",
          path |-> "/api/reports/monthly-summary.pdf?debtorId={debtorId}&year={year}&month={month}"]
    [] op = "createRecurringExpense" ->
         [method |-> "POST", path |-> "/api/recurring-expenses"]
    [] op = "listRecurringExpenses" ->
         [method |-> "GET", path |-> "/api/recurring-expenses?type={type}"]
    [] op = "getRecurringExpenseTotal" ->
         [method |-> "GET", path |-> "/api/recurring-expenses/total?type={type}"]
    [] op = "updateRecurringExpense" ->
         [method |-> "PATCH", path |-> "/api/recurring-expenses/{id}"]
    [] op = "deleteRecurringExpense" ->
         [method |-> "DELETE", path |-> "/api/recurring-expenses/{id}"]
    [] op = "createDebt" -> [method |-> "POST", path |-> "/api/debts"]
    [] op = "deleteDebt" -> [method |-> "DELETE", path |-> "/api/debts/{debtId}"]
    [] op = "getDebtDetail" -> [method |-> "GET", path |-> "/api/debts/{debtId}"]
    [] op = "payInstallment" ->
         [method |-> "PATCH", path |-> "/api/installments/{installmentId}/pay"]
    [] op = "getUnpaidInstallmentsByMonth" ->
         [method |-> "GET",
          path |-> "/api/installments/unpaid?debtorId={debtorId}&year={year}&month={month}"]
    [] OTHER -> [method |-> "none", path |-> ""]

\* a call of an operation of api: request runs up to its await of fetch, so
\* the one fetch of the call is issued, with the operation's verb and path
NewReq(api, arg) ==
  [api |-> api, arg |-> arg, st |-> "sent", out |-> Return(Undefined),
   method |-> Endpoint(api).method, path |-> Endpoint(api).path, fetches |-> 1]
NoReq ==
  [api |-> "none", arg |-> <<>>, st |-> "idle", out |-> Return(Undefined),
   method |-> "none", path |-> "", fetches |-> 0]

\* a client that fetches again when a call fails
ServedWaysRetrying(r, srv) ==
  (IF ServerAccepts(r.api, r.arg, srv)
   THEN {[req |-> [r EXCEPT !.st = "served",
                            !.out = request(Response(ServerStatus(r.api),
                                                     JsonBody(ServerData(r.api, r.arg, srv))))],
          srv |-> ServerNext(r.api, r.arg, srv)]}
   ELSE {})
  \cup {[req |-> IF r.fetches < 2
                 THEN [r EXCEPT !.fetches = @ + 1]
                 ELSE [r EXCEPT !.st = "served", !.out = request(f)],
         srv |-> srv]
        : f \in FailuresOf(r.api, r.arg, srv)}

\* every way request r can be served with the backend at srv: the served
\* request (its outcome as the client call settles it) and the backend after
ServedWays(r, srv) ==
  (IF ServerAccepts(r.api, r.arg, srv)
   THEN {[req |-> [r EXCEPT !.st = "served",
                            !.out = request(Response(ServerStatus(r.api),
                                                     JsonBody(ServerData(r.api, r.arg, srv))))],
          srv |-> ServerNext(r.api, r.arg, srv)]}
   ELSE {})
  \cup {[req |-> [r EXCEPT !.st = "served", !.out = request(f)], srv |-> srv]
        : f \in FailuresOf(r.api, r.arg, srv)}

(***************************************************************************)
(* The view state of App after construction (the useState initialisers).   *)
(***************************************************************************)
NoNotice == [type |-> "none", text |-> <<>>]
ErrorNotice(text) == [type |-> "error", text |-> text]
SuccessNotice(text) == [type |-> "success", text |-> <<text>>]
EMPTY_RECURRING == [FIXED |-> <<>>, OPTIONAL |-> <<>>]
EMPTY_TOTALS == [FIXED |-> 0, OPTIONAL |-> 0]

IdleTask == [op |-> "idle", pc |-> "idle", req |-> <<>>, cap |-> <<>>, solo |-> FALSE]
BootIdle == [pc |-> "mount", req |-> [k \in 1..5 |-> NoReq]]
HistInit == [bootErrorNotices |-> 0, snapshotRead |-> "none", reloadCases |-> {},
             lastWrite |-> "none", lastDebtWrite |-> "none",
             unhandled |-> FALSE, paid |-> {}, runs |-> 0]

ViewInit ==
  /\ activeTab = "debtors"
  /\ bootLoading = TRUE
  /\ notice = NoNotice
  /\ debtors = <<>>
  /\ recurringExpenses = EMPTY_RECURRING
  /\ recurringTotals = EMPTY_TOTALS
  /\ pendingRecurringDelete = Null
  /\ recurringForm = [amount |-> 0, type |-> "FIXED"]
  /\ recurringEditing = Null
  /\ unpaidByMonthLoading = FALSE
  /\ unpaidByMonthResult = Null
  /\ salarySnapshot = Null
  /\ salaryPreviewAmount = 0
  /\ salarySnapshotLoading = FALSE
  /\ monthlyFreeAmountLoading = FALSE
  /\ monthlyFreeAmountResult = Null
  /\ debtCreationDebtorContext = Null
  /\ debtorForm = [name |-> <<>>]
  /\ debtForm = [debtorId |-> "", totalAmount |-> 0]
  /\ debtorMonthlyQuery = [debtorId |-> "", month |-> CurrentMonth, year |-> CurrentYear]
  /\ pendingDebtDelete = Null
  /\ debtDetailModal = Null
  /\ debtDetail = Null
  /\ debtDetailLoading = FALSE
  /\ debtDetailPage = 1

RunInit ==
  /\ boot = BootIdle
  /\ tasks = [i \in 1..MaxTasks |-> IdleTask]
  /\ hist = HistInit

(***************************************************************************)
(* SpecClient: one client call at a time, on every response the network    *)
(* can hand to it.                                                         *)
(***************************************************************************)
InitClient ==
  /\ call = CallIdle
  /\ ViewInit
  /\ RunInit
  /\ server = ServerWith(<<>>, <<>>)

NextClient ==
  \/ \E fn \in ClientFns : ClientCall(fn)
  \/ \E net \in NetOutcomes : ClientSettle(net)
  \/ ClientForget

SpecClient == InitClient /\ [][NextClient]_vars

\* "HTTP <status>" for the statuses of the model, written out
GenericText(status) ==
  CASE status = 400 -> <<"H", "T", "T", "P", " ", "4", "0", "0">>
    [] status = 404 -> <<"H", "T", "T", "P", " ", "4", "0", "4">>
    [] status = 500 -> <<"H", "T", "T", "P", " ", "5", "0", "0">>
    [] OTHER -> <<>>

Non2xx(net) == net.net = "response" /\ net.status \notin 200..299
StringMessage(body) ==
  body.t = "json" /\ body.v[1].j = "obj" /\ body.v[1].message.f = "str"
NonBlank(s) == \E k \in 1..Len(s) : s[k] # " "

\* C1 as stated: on a non-2xx response request rejects with one ApiClientError
\* whose status is the response's and whose message is the body's `message`
\* when that is a non-empty string, and "HTTP <status>" otherwise.
C1_AsStated ==
  (call.pc = "settled" /\ call.fn = "request" /\ Non2xx(call.net)) =>
    /\ ~call.out.ok
    /\ call.out.err.cls = "ApiClientError"
    /\ call.out.err.status = call.net.status
    /\ call.out.err.message =
         IF StringMessage(call.net.body) /\ Len(call.net.body.v[1].message.s) > 0
         THEN call.net.body.v[1].message.s
         ELSE GenericText(call.net.status)

\* C1, amended: the body's `message` is used when it is a string with at least
\* one character that is not white space; a missing, non-string, empty or blank
\* message, a JSON null or number, and an empty or non-JSON body all give
\* "HTTP <status>", and the call still rejects with the one ApiClientError.
C1_ErrorConversion ==
  (call.pc = "settled" /\ call.fn = "request" /\ Non2xx(call.net)) =>
    /\ ~call.out.ok
    /\ call.out.err.cls = "ApiClientError"
    /\ call.out.err.status = call.net.status
    /\ call.out.err.message =
         IF StringMessage(call.net.body) /\ NonBlank(call.net.body.v[1].message.s)
         THEN call.net.body.v[1].message.s
         ELSE GenericText(call.net.status)

C1_Witness ==
  /\ call.pc = "settled" /\ call.fn = "request"
  /\ call.net = Response(500, [t |-> "text", v |-> <<>>])
  /\ call.out = Throw(ApiClientError(GenericText(500), 500))

\* C2 as stated: every failure of a client call reaches the caller as an
\* ApiClientError.
C2_AsStated ==
  (call.pc = "settled" /\ ~call.out.ok) => call.out.err.cls = "ApiClientError"

\* C2, amended: a non-2xx response rejects with an ApiClientError carrying the
\* response's status; a rejected fetch rejects with fetch's own error and an
\* unparseable body of a 2xx response other than 204 (request only) with the
\* parser's error, neither of which is an ApiClientError or carries a status;
\* a call fails in no other case.
C2_FailureKinds ==
  call.pc = "settled" =>
    IF call.net.net = "rejected"
      THEN ~call.out.ok /\ call.out.err.cls = "TypeError" /\ call.out.err.status = 0
    ELSE IF Non2xx(call.net)
      THEN /\ ~call.out.ok
           /\ call.out.err.cls = "ApiClientError"
           /\ call.out.err.status = call.net.status
    ELSE IF call.fn = "request" /\ call.net.status # 204 /\ call.net.body.t # "json"
      THEN ~call.out.ok /\ call.out.err.cls = "SyntaxError" /\ call.out.err.status = 0
    ELSE call.out.ok

C2_Witness ==
  /\ call.pc = "settled"
  /\ call.net = NetworkFailure
  /\ call.out = Throw(FetchTypeError)

(***************************************************************************)
(* Shared pieces of the orchestrator.                                      *)
(***************************************************************************)
\* a conversion that shows the fallback text for every error
toErrorMessageGeneric(err) == <<"Ocurrio un error inesperado.">>

\* function toErrorMessage(error)
toErrorMessage(err) ==
  IF err.cls # "none" /\ err.message # <<>> THEN err.message
  ELSE <<"Ocurrio un error inesperado.">>

FreeSlots == {i \in 1..MaxTasks : tasks[i].op = "idle"}
FirstFree == CHOOSE i \in FreeSlots : \A j \in FreeSlots : i <= j

\* the backend serves one request of a handler run
Serve(i, k) ==
  /\ tasks[i].op # "idle"
  /\ k \in 1..Len(tasks[i].req)
  /\ tasks[i].req[k].st = "sent"
  /\ \E w \in ServedWays(tasks[i].req[k], server) :
       /\ tasks' = [tasks EXCEPT ![i].req[k] = w.req]
       /\ server' = w.srv
  /\ UNCHANGED <<clientVars, viewVars, boot, hist>>

(***************************************************************************)
(* loadMonthlyFreeAmount(year, silentNotice)                               *)
(***************************************************************************)
\* the run up to its await: the task it leaves behind
MonthlyFreeAmountTask(op, year, silent) ==
  [op |-> op, pc |-> "getMonthlyFreeAmount",
   req |-> <<NewReq("getMonthlyFreeAmount", [year |-> year])>>,
   cap |-> [year |-> year, silent |-> silent], solo |-> FALSE]

\* the response arrives at a run that nothing awaits (void loadMonthlyFreeAmount)
LoadMonthlyFreeAmountSettle(i) ==
  LET t == tasks[i] IN
  /\ t.op = "loadMonthlyFreeAmount" /\ t.pc = "getMonthlyFreeAmount"
  /\ t.req[1].st = "served"
  /\ monthlyFreeAmountResult' =
       IF t.req[1].out.ok THEN Some(t.req[1].out.value) ELSE Null
  /\ notice' = IF ~t.req[1].out.ok /\ ~t.cap.silent
               THEN ErrorNotice(toErrorMessage(t.req[1].out.err)) ELSE notice
  /\ monthlyFreeAmountLoading' = FALSE
  /\ tasks' = [tasks EXCEPT ![i] = IdleTask]
  /\ UNCHANGED <<clientVars, activeTab, bootLoading, debtors, recurringExpenses,
                 recurringTotals, pendingRecurringDelete, recurringForm,
                 recurringEditing, unpaidByMonthLoading, unpaidByMonthResult,
                 salarySnapshot, salaryPreviewAmount, salarySnapshotLoading,
                 debtCreationDebtorContext, debtorForm, debtForm,
                 debtorMonthlyQuery, debtView, boot, server, hist>>

(***************************************************************************)
(* loadInitialData, run once by useEffect(..., []).                        *)
(***************************************************************************)
BootReads ==
  <<NewReq("listDebtors", <<>>),
    NewReq("listRecurringExpenses", [type |-> "FIXED"]),
    NewReq("listRecurringExpenses", [type |-> "OPTIONAL"]),
    NewReq("getRecurringExpenseTotal", [type |-> "FIXED"]),
    NewReq("getRecurringExpenseTotal", [type |-> "OPTIONAL"])>>

\* the reads issued at an event of the run: 0 is the call of loadInitialData
\* (the array passed to Promise.all is built before anything is awaited), k is
\* the arrival of the response of read k
BootIssueSequential(event) == IF event < 5 THEN {event + 1} ELSE {}
BootIssueOn(event) == IF event = 0 THEN 1..5 ELSE {}

\* setBootLoading(true), the value held while the reads are awaited
BootLoadingUnset == FALSE
BootLoadingWhileAwaiting == TRUE

\* whether the awaited Promise.all is still pending, so that a settling read
\* resumes the run
PromiseAllPendingAlways(b) == TRUE
PromiseAllPending(b) == b.pc = "awaiting"

\* current.debtorId || debtorsResponse.debtors[0]?.id || ""
InitialDebtorId(current, list) ==
  IF current # "" THEN current
  ELSE IF list # <<>> /\ list[1].id # "" THEN list[1].id
  ELSE ""

LoadInitialDataStart ==
  /\ boot.pc = "mount"
  /\ boot' = [pc |-> "awaiting",
              req |-> [k \in 1..5 |-> IF k \in BootIssueOn(0) THEN BootReads[k] ELSE NoReq]]
  /\ bootLoading' = BootLoadingWhileAwaiting
  /\ UNCHANGED <<clientVars, activeTab, notice, debtors, recurringExpenses,
                 recurringTotals, pendingRecurringDelete, recurringForm,
                 recurringEditing, unpaidByMonthLoading, unpaidByMonthResult,
                 salarySnapshot, salaryPreviewAmount, salarySnapshotLoading,
                 monthlyFreeAmountLoading, monthlyFreeAmountResult,
                 debtCreationDebtorContext, debtorForm, debtForm,
                 debtorMonthlyQuery, debtView, tasks, server, hist>>

ServeBoot(k) ==
  /\ boot.req[k].st = "sent"
  /\ \E w \in ServedWays(boot.req[k], server) :
       /\ boot' = [boot EXCEPT !.req[k] = w.req]
       /\ server' = w.srv
  /\ UNCHANGED <<clientVars, viewVars, tasks, hist>>

\* a start that keeps the debtor list when another read fails after it
DeliverBootKeepingSuccesses(k) ==
  LET r == boot.req[k]
      issued == [j \in 1..5 |->
                   IF j = k THEN [r EXCEPT !.st = "delivered"]
                   ELSE IF boot.req[j].st = "idle" /\ j \in BootIssueOn(k)
                     THEN BootReads[j]
                   ELSE boot.req[j]]
      allDone == \A j \in 1..5 : issued[j].st = "delivered" /\ issued[j].out.ok
      list == issued[1].out.value.debtors
  IN
  /\ r.st = "served"
  /\ IF PromiseAllPending(boot) /\ ~r.out.ok THEN
       \* catch, finally
       /\ boot' = [pc |-> "failed", req |-> issued]
       /\ notice' = ErrorNotice(toErrorMessage(r.out.err))
       /\ hist' = [hist EXCEPT !.bootErrorNotices = @ + 1]
       /\ bootLoading' = FALSE
       /\ debtors' = IF issued[1].st = "delivered" /\ issued[1].out.ok
                     THEN list ELSE debtors
       /\ UNCHANGED <<recurringExpenses, recurringTotals, debtForm,
                      debtorMonthlyQuery, monthlyFreeAmountLoading, tasks>>
     ELSE IF PromiseAllPending(boot) /\ allDone THEN
       \* the rest of the try block, finally
       /\ boot' = [pc |-> "done", req |-> issued]
       /\ debtors' = list
       /\ recurringExpenses' = [FIXED |-> issued[2].out.value.recurringExpenses,
                                OPTIONAL |-> issued[3].out.value.recurringExpenses]
       /\ recurringTotals' = [FIXED |-> issued[4].out.value.total,
                              OPTIONAL |-> issued[5].out.value.total]
       /\ debtForm' = [debtForm EXCEPT !.debtorId = InitialDebtorId(@, list)]
       /\ debtorMonthlyQuery' =
            [debtorMonthlyQuery EXCEPT !.debtorId = InitialDebtorId(@, list)]
       /\ monthlyFreeAmountLoading' = TRUE
       /\ tasks' = [tasks EXCEPT ![FirstFree] =
                      MonthlyFreeAmountTask("loadMonthlyFreeAmount", CurrentYear, TRUE)]
       /\ bootLoading' = FALSE
       /\ UNCHANGED <<notice, hist>>
     ELSE
       /\ boot' = [boot EXCEPT !.req = issued]
       /\ UNCHANGED <<notice, hist, bootLoading, debtors, recurringExpenses,
                      recurringTotals, debtForm, debtorMonthlyQuery,
                      monthlyFreeAmountLoading, tasks>>
  /\ UNCHANGED <<clientVars, activeTab, pendingRecurringDelete, recurringForm,
                 recurringEditing, unpaidByMonthLoading, unpaidByMonthResult,
                 salarySnapshot, salaryPreviewAmount, salarySnapshotLoading,
                 monthlyFreeAmountResult, debtCreationDebtorContext, debtorForm,
                 debtView, server>>

\* the response of read k arrives.  Promise.all rejects on the first read that
\* fails and fulfils when the last of the five has succeeded; either resumes
\* loadInitialData, which runs to its end.  A response that arrives after
\* Promise.all has rejected is dropped.
DeliverBoot(k) ==
  LET r == boot.req[k]
      issued == [j \in 1..5 |->
                   IF j = k THEN [r EXCEPT !.st = "delivered"]
                   ELSE IF boot.req[j].st = "idle" /\ j \in BootIssueOn(k)
                     THEN BootReads[j]
                   ELSE boot.req[j]]
      allDone == \A j \in 1..5 : issued[j].st = "delivered" /\ issued[j].out.ok
      list == issued[1].out.value.debtors
  IN
  /\ r.st = "served"
  /\ IF PromiseAllPending(boot) /\ ~r.out.ok THEN
       \* catch, finally
       /\ boot' = [pc |-> "failed", req |-> issued]
       /\ notice' = ErrorNotice(toErrorMessage(r.out.err))
       /\ hist' = [hist EXCEPT !.bootErrorNotices = @ + 1]
       /\ bootLoading' = FALSE
       /\ UNCHANGED <<debtors, recurringExpenses, recurringTotals, debtForm,
                      debtorMonthlyQuery, monthlyFreeAmountLoading, tasks>>
     ELSE IF PromiseAllPending(boot) /\ allDone THEN
       \* the rest of the try block, finally
       /\ boot' = [pc |-> "done", req |-> issued]
       /\ debtors' = list
       /\ recurringExpenses' = [FIXED |-> issued[2].out.value.recurringExpenses,
                                OPTIONAL |-> issued[3].out.value.recurringExpenses]
       /\ recurringTotals' = [FIXED |-> issued[4].out.value.total,
                              OPTIONAL |-> issued[5].out.value.total]
       /\ debtForm' = [debtForm EXCEPT !.debtorId = InitialDebtorId(@, list)]
       /\ debtorMonthlyQuery' =
            [debtorMonthlyQuery EXCEPT !.debtorId = InitialDebtorId(@, list)]
       /\ monthlyFreeAmountLoading' = TRUE
       /\ tasks' = [tasks EXCEPT ![FirstFree] =
                      MonthlyFreeAmountTask("loadMonthlyFreeAmount", CurrentYear, TRUE)]
       /\ bootLoading' = FALSE
       /\ UNCHANGED <<notice, hist>>
     ELSE
       /\ boot' = [boot EXCEPT !.req = issued]
       /\ UNCHANGED <<notice, hist, bootLoading, debtors, recurringExpenses,
                      recurringTotals, debtForm, debtorMonthlyQuery,
                      monthlyFreeAmountLoading, tasks>>
  /\ UNCHANGED <<clientVars, activeTab, pendingRecurringDelete, recurringForm,
                 recurringEditing, unpaidByMonthLoading, unpaidByMonthResult,
                 salarySnapshot, salaryPreviewAmount, salarySnapshotLoading,
                 monthlyFreeAmountResult, debtCreationDebtorContext, debtorForm,
                 debtView, server>>

(***************************************************************************)
(* SpecBoot: the application starts against a backend that already holds   *)
(* some data.                                                              *)
(***************************************************************************)
Debtor(n) == [id |-> DebtorIdOf(n), totalDebt |-> 0]
Expense(n, amount) == [id |-> ExpenseIdOf(n), amount |-> amount]

InitBoot ==
  /\ call = CallIdle
  /\ ViewInit
  /\ RunInit
  /\ \E dl \in {<<>>, <<Debtor(1)>>}, fl \in {<<>>, <<Expense(1, 1)>>} :
       server = ServerWith(dl, fl)

NextBoot ==
  \/ LoadInitialDataStart
  \/ \E k \in 1..5 : ServeBoot(k)
  \/ \E k \in 1..5 : DeliverBoot(k)
  \/ \E i \in 1..MaxTasks, k \in 1..1 : Serve(i, k)
  \/ \E i \in 1..MaxTasks : LoadMonthlyFreeAmountSettle(i)

SpecBoot == InitBoot /\ [][NextBoot]_vars

InFlight(r) == r.st \in {"sent", "served"}
Consumed(r) == r.st = "delivered"

\* C4: when the response of any startup read is consumed, all five reads have
\* been issued.
C4_AllIssuedBeforeAnyConsumed ==
  (\E k \in 1..5 : Consumed(boot.req[k])) => \A k \in 1..5 : boot.req[k].st # "idle"

C4_Witness ==
  /\ Consumed(boot.req[5])
  /\ \A k \in 1..4 : InFlight(boot.req[k])

StartedOn(srv, tab) ==
  /\ call = CallIdle
  /\ server = srv
  /\ boot = [pc |-> "done",
             req |-> [k \in 1..5 |->
                        [BootReads[k] EXCEPT
                           !.st = "delivered",
                           !.out = Return(ServerData(BootReads[k].api,
                                                     BootReads[k].arg, srv))]]]
  /\ tasks = [i \in 1..MaxTasks |-> IdleTask]
  /\ hist = HistInit
  /\ activeTab = tab
  /\ bootLoading = FALSE
  /\ notice = NoNotice
  /\ debtors = srv.debtors
  /\ recurringExpenses = srv.recurring
  /\ recurringTotals = [FIXED |-> SumAmounts(srv.recurring.FIXED),
                        OPTIONAL |-> SumAmounts(srv.recurring.OPTIONAL)]
  /\ pendingRecurringDelete = Null
  /\ recurringForm = [amount |-> 0, type |-> "FIXED"]
  /\ recurringEditing = Null
  /\ unpaidByMonthLoading = FALSE
  /\ unpaidByMonthResult = Null
  /\ salarySnapshot = Null
  /\ salaryPreviewAmount = 0
  /\ salarySnapshotLoading = FALSE
  /\ monthlyFreeAmountLoading = FALSE
  /\ monthlyFreeAmountResult =
       Some(ServerData("getMonthlyFreeAmount", [year |-> CurrentYear], srv))
  /\ debtCreationDebtorContext = Null
  /\ debtorForm = [name |-> <<>>]
  /\ debtForm = [debtorId |-> InitialDebtorId("", srv.debtors), totalAmount |-> 0]
  /\ debtorMonthlyQuery = [debtorId |-> InitialDebtorId("", srv.debtors),
                           month |-> CurrentMonth, year |-> CurrentYear]
  /\ pendingDebtDelete = Null
  /\ debtDetailModal = Null
  /\ debtDetail = Null
  /\ debtDetailLoading = FALSE
  /\ debtDetailPage = 1

\* useState<TabKey>("debtors"): the tab on display when the gate opens
Started(srv) == StartedOn(srv, "debtors")

\* a call that would cancel the runs in flight
SpawnedCancelling(t) ==
  [j \in 1..MaxTasks |->
     IF j = FirstFree THEN [t EXCEPT !.solo = (FreeSlots = 1..MaxTasks)] ELSE IdleTask]

\* a handler is called: its run takes the first free slot.  `solo` records
\* that no other run was in flight at any time of this run (history only).
Spawned(t) ==
  [j \in 1..MaxTasks |->
     IF j = FirstFree THEN [t EXCEPT !.solo = (FreeSlots = 1..MaxTasks)]
     ELSE [tasks[j] EXCEPT !.solo = FALSE]]

\* the call itself, within the bounds on the runs in flight and on the calls
Spawn(t, calls) ==
  /\ FreeSlots # {}
  /\ hist.runs < calls
  /\ tasks' = Spawned(t)
  /\ hist' = [hist EXCEPT !.runs = @ + 1]

\* the controls of a tab: below the gate `bootLoading ? <p>Cargando...</p> :
\* <>...</>`, and not behind the backdrop of a dialog (aria-modal="true")
NoDialog ==
  /\ recurringEditing = Null /\ pendingRecurringDelete = Null
  /\ pendingDebtDelete = Null /\ debtDetailModal = Null
Rendered(tab) == ~bootLoading /\ activeTab = tab /\ NoDialog

\* <nav className="tabs">: onClick={() => setActiveTab(tab.key)}
SetActiveTab(tab) ==
  /\ activeTab # tab
  /\ NoDialog
  /\ activeTab' = tab
  /\ UNCHANGED <<clientVars, bootLoading, notice, recurringView, monthView, freeView,
                 debtorView, debtView, runVars>>

(***************************************************************************)
(* loadDebtorMonthData(debtorId, year, month) and its two callers.         *)
(***************************************************************************)
Months == {1, 2}

\* loadDebtorMonthData up to its first await: the four setters, and the run
\* it leaves suspended.  `after` is what the caller does once it returns:
\* nothing (Null), or for handlePayInstallment the detail it reloads last.
\* `caller` records the handler the run continues (history only).
LoadDebtorMonthDataStarts ==
  /\ unpaidByMonthLoading' = TRUE
  /\ salarySnapshot' = Null
  /\ salaryPreviewAmount' = 0
  /\ notice' = NoNotice
  /\ UNCHANGED <<unpaidByMonthResult, salarySnapshotLoading>>

LoadDebtorMonthDataTask(debtorId, year, month, after) ==
  [op |-> "loadDebtorMonthData", pc |-> "getUnpaidInstallmentsByMonth",
   req |-> <<NewReq("getUnpaidInstallmentsByMonth",
                    [debtorId |-> debtorId, year |-> year, month |-> month])>>,
   cap |-> [debtorId |-> debtorId, year |-> year, month |-> month,
            totalInstallments |-> 0, after |-> after, caller |-> "user"],
   solo |-> FALSE]

LoadDebtorMonthDataCall(debtorId, year, month) ==
  /\ LoadDebtorMonthDataStarts
  /\ Spawn(LoadDebtorMonthDataTask(debtorId, year, month, Null), MaxRuns)

\* onSubmit of the profile filters; the debtor <select> is `required`, so the
\* form is not submitted with no debtor selected
runUnpaidByMonthQuery ==
  /\ Rendered("debtorProfile")
  /\ debtorMonthlyQuery.debtorId # ""
  /\ LoadDebtorMonthDataCall(debtorMonthlyQuery.debtorId, debtorMonthlyQuery.year,
                             debtorMonthlyQuery.month)
  /\ UNCHANGED <<clientVars, activeTab, bootLoading, recurringView, freeView,
                 debtorView, debtView, boot, server>>

\* "Ver perfil" of a row of the debtors table
openDebtorProfile(debtorId) ==
  /\ Rendered("debtors")
  /\ debtorId \in Ids(debtors)
  /\ debtorMonthlyQuery' = [debtorMonthlyQuery EXCEPT !.debtorId = debtorId]
  /\ activeTab' = "debtorProfile"
  /\ LoadDebtorMonthDataCall(debtorId, debtorMonthlyQuery.year, debtorMonthlyQuery.month)
  /\ UNCHANGED <<clientVars, bootLoading, recurringView, freeView, debtors,
                 debtCreationDebtorContext, debtorForm, debtForm, debtView,
                 boot, server>>

\* the Deudor and Mes <select>s of the profile filters
SetQueryDebtor(debtorId) ==
  /\ Rendered("debtorProfile")
  /\ debtorId \in Ids(debtors)
  /\ debtorMonthlyQuery.debtorId # debtorId
  /\ debtorMonthlyQuery' = [debtorMonthlyQuery EXCEPT !.debtorId = debtorId]
  /\ UNCHANGED <<clientVars, activeTab, bootLoading, notice, recurringView, monthView,
                 freeView, debtors, debtCreationDebtorContext, debtorForm, debtForm,
                 debtView, runVars>>

SetQueryMonth(month) ==
  /\ Rendered("debtorProfile")
  /\ debtorMonthlyQuery.month # month
  /\ debtorMonthlyQuery' = [debtorMonthlyQuery EXCEPT !.month = month]
  /\ UNCHANGED <<clientVars, activeTab, bootLoading, notice, recurringView, monthView,
                 freeView, debtors, debtCreationDebtorContext, debtorForm, debtForm,
                 debtView, runVars>>

\* loadDebtDetail(target) up to its await: the setters, and the suspended run
LoadDebtDetailStarts(target) ==
  /\ debtDetailModal' = Some(target)
  /\ debtDetail' = Null
  /\ debtDetailPage' = 1
  /\ debtDetailLoading' = TRUE
  /\ notice' = NoNotice

DebtDetailTask(target) ==
  [op |-> "loadDebtDetail", pc |-> "getDebtDetail",
   req |-> <<NewReq("getDebtDetail", [debtId |-> target.debtId])>>,
   cap |-> [target |-> target, caller |-> "user"], solo |-> FALSE]

\* loadDebtorMonthData returns, having stored notice n if it failed.  A run of
\* handlePayInstallment then goes on to `if (debtDetailModal) startTransition(
\* () => void loadDebtDetail(debtDetailModal))`, whose setNotice(null) is the
\* last write of the notice in that step.
LoadDebtorMonthDataReturns(i, n) ==
  LET after == tasks[i].cap.after IN
  IF after = Null THEN
    /\ notice' = n
    /\ tasks' = [tasks EXCEPT ![i] = IdleTask]
    /\ UNCHANGED debtView
  ELSE
    /\ LoadDebtDetailStarts(after[1])
    /\ tasks' = [tasks EXCEPT ![i] = [DebtDetailTask(after[1]) EXCEPT
                                         !.solo = tasks[i].solo,
                                         !.cap.caller = tasks[i].cap.caller]]
    /\ UNCHANGED pendingDebtDelete

\* the outer catch and finally of loadDebtorMonthData
LoadDebtorMonthDataFails(i, err) ==
  /\ unpaidByMonthResult' = Null
  /\ unpaidByMonthLoading' = FALSE
  /\ LoadDebtorMonthDataReturns(i, ErrorNotice(toErrorMessage(err)))

\* a run that asks for the snapshot right after the unpaid installments
MonthReadSkippingFree(pc) == "getSalarySnapshot"

\* the read that loadDebtorMonthData awaits after the one at pc has resolved:
\* getUnpaidInstallmentsByMonth, then getMonthlyFreeAmount, then getSalarySnapshot
MonthReadAfter(pc) ==
  IF pc = "getUnpaidInstallmentsByMonth" THEN "getMonthlyFreeAmount"
  ELSE "getSalarySnapshot"

\* the request of a read of loadDebtorMonthData, from the arguments of the run
MonthReadRequest(api, cap) ==
  IF api = "getMonthlyFreeAmount" THEN NewReq(api, [year |-> cap.year])
  ELSE NewReq(api, [debtorId |-> cap.debtorId, year |-> cap.year, month |-> cap.month])

\* the unpaid installments arrive
LoadDebtorMonthDataUnpaid(i) ==
  LET t == tasks[i]
      r == t.req[1]
  IN
  /\ t.op = "loadDebtorMonthData" /\ t.pc = "getUnpaidInstallmentsByMonth"
  /\ r.st = "served"
  /\ IF r.out.ok THEN
       /\ unpaidByMonthResult' = Some(r.out.value)
       /\ tasks' = [tasks EXCEPT
                      ![i].pc = MonthReadAfter(t.pc),
                      ![i].req = <<MonthReadRequest(MonthReadAfter(t.pc), t.cap)>>,
                      ![i].cap.totalInstallments = SumAmounts(r.out.value.installments)]
       /\ UNCHANGED <<notice, unpaidByMonthLoading, debtView>>
     ELSE LoadDebtorMonthDataFails(i, r.out.err)
  /\ UNCHANGED <<clientVars, activeTab, bootLoading, recurringView, salarySnapshot,
                 salaryPreviewAmount, salarySnapshotLoading, freeView, debtorView,
                 boot, server, hist>>

\* a preview that does not halve the free amount
SalaryPreviewWhole(monthlyFreeAmount, totalInstallments) ==
  monthlyFreeAmount - totalInstallments

\* const preview = Number(monthlyFreeAmount.monthlyFreeAmount) / 2 - totalInstallments
\* (the backend's free amounts are even here, so that the half is a whole number)
SalaryPreview(monthlyFreeAmount, totalInstallments) ==
  (monthlyFreeAmount \div 2) - totalInstallments

\* the monthly free amount arrives: the preview is computed from it
LoadDebtorMonthDataFree(i) ==
  LET t == tasks[i]
      r == t.req[1]
  IN
  /\ t.op = "loadDebtorMonthData" /\ t.pc = "getMonthlyFreeAmount"
  /\ r.st = "served"
  /\ IF r.out.ok THEN
       /\ salaryPreviewAmount' =
            SalaryPreview(r.out.value.monthlyFreeAmount, t.cap.totalInstallments)
       /\ salarySnapshotLoading' = TRUE
       /\ tasks' = [tasks EXCEPT
                      ![i].pc = MonthReadAfter(t.pc),
                      ![i].req = <<MonthReadRequest(MonthReadAfter(t.pc), t.cap)>>]
       /\ UNCHANGED <<notice, unpaidByMonthLoading, unpaidByMonthResult, debtView>>
     ELSE
       /\ LoadDebtorMonthDataFails(i, r.out.err)
       /\ UNCHANGED <<salaryPreviewAmount, salarySnapshotLoading>>
  /\ UNCHANGED <<clientVars, activeTab, bootLoading, recurringView, salarySnapshot,
                 freeView, debtorView, boot, server, hist>>

\* error instanceof ApiClientError && error.status === 404
AnyApiClientError(err) == err.cls = "ApiClientError"
SnapshotNotMaterialized(err) == err.cls = "ApiClientError" /\ err.status = 404

\* the snapshot read settles: the inner try / catch / finally, then the outer
\* catch when the inner one rethrows, then the outer finally
LoadDebtorMonthDataSnapshot(i) ==
  LET t == tasks[i]
      r == t.req[1]
  IN
  /\ t.op = "loadDebtorMonthData" /\ t.pc = "getSalarySnapshot"
  /\ r.st = "served"
  /\ salarySnapshotLoading' = FALSE
  /\ IF r.out.ok THEN
       /\ salarySnapshot' = Some(r.out.value)
       /\ hist' = [hist EXCEPT !.snapshotRead = "found"]
       /\ unpaidByMonthLoading' = FALSE
       /\ LoadDebtorMonthDataReturns(i, notice)
       /\ UNCHANGED unpaidByMonthResult
     ELSE IF SnapshotNotMaterialized(r.out.err) THEN
       /\ salarySnapshot' = Null
       /\ hist' = [hist EXCEPT !.snapshotRead = "notFound"]
       /\ unpaidByMonthLoading' = FALSE
       /\ LoadDebtorMonthDataReturns(i, notice)
       /\ UNCHANGED unpaidByMonthResult
     ELSE
       /\ LoadDebtorMonthDataFails(i, r.out.err)
       /\ hist' = [hist EXCEPT !.snapshotRead = "failed"]
       /\ UNCHANGED salarySnapshot
  /\ UNCHANGED <<clientVars, activeTab, bootLoading, recurringView,
                 salaryPreviewAmount, freeView, debtorView, boot, server>>

(***************************************************************************)
(* SpecMonth: the debtor profile.  The backend holds two debtors; the      *)
(* first may have a debt of two installments due in the current month, one *)
(* unpaid and one paid, and may have the salary snapshot of the current    *)
(* month materialized.                                                     *)
(***************************************************************************)
MonthBackend(owes, snaps) ==
  IF owes
  THEN [ServerWith(<<[Debtor(1) EXCEPT !.totalDebt = 1], Debtor(2)>>, <<>>) EXCEPT
          !.installments = <<[id |-> InstallmentId(1), debtId |-> DebtId(1),
                              debtorId |-> DebtorIdOf(1), amount |-> 1, paid |-> FALSE,
                              year |-> CurrentYear, month |-> CurrentMonth],
                             [id |-> InstallmentId(2), debtId |-> DebtId(1),
                              debtorId |-> DebtorIdOf(1), amount |-> 1, paid |-> TRUE,
                              year |-> CurrentYear, month |-> CurrentMonth]>>,
          !.madeDebts = 1,
          !.snapshots = snaps]
  ELSE [ServerWith(<<Debtor(1), Debtor(2)>>, <<>>) EXCEPT !.snapshots = snaps]

InitMonth ==
  \E owes \in BOOLEAN,
     snaps \in SUBSET {[debtorId |-> DebtorIdOf(1), year |-> CurrentYear,
                        month |-> CurrentMonth]} :
    Started(MonthBackend(owes, snaps))

NextMonth ==
  \/ \E tab \in {"debtors", "debtorProfile"} : SetActiveTab(tab)
  \/ \E d \in {DebtorIdOf(1), DebtorIdOf(2)} : openDebtorProfile(d)
  \/ \E d \in {DebtorIdOf(1), DebtorIdOf(2)} : SetQueryDebtor(d)
  \/ \E m \in Months : SetQueryMonth(m)
  \/ runUnpaidByMonthQuery
  \/ \E i \in 1..MaxTasks, k \in 1..1 : Serve(i, k)
  \/ \E i \in 1..MaxTasks : LoadDebtorMonthDataUnpaid(i)
  \/ \E i \in 1..MaxTasks : LoadDebtorMonthDataFree(i)
  \/ \E i \in 1..MaxTasks : LoadDebtorMonthDataSnapshot(i)

SpecMonth == InitMonth /\ [][NextMonth]_vars

\* the step in which run i of loadDebtorMonthData consumes a failed snapshot read
SnapshotReadFailsAt(i) ==
  /\ tasks[i].op = "loadDebtorMonthData" /\ tasks[i].pc = "getSalarySnapshot"
  /\ tasks[i].req[1].st = "served" /\ ~tasks[i].req[1].out.ok
  /\ tasks'[i].op = "idle"

\* what a run computes as the preview: half the free amount less the unpaid total
PreviewOf(unpaid) == (server.free \div 2) - SumAmounts(unpaid.installments)

\* C3: in loadDebtorMonthData a snapshot read that fails with status 404 stores
\* no error notice: the notice is left as it is, salarySnapshot is null, the
\* preview and the unpaid result are kept (for a run that nothing else
\* overlapped: the notice is still absent, the result is the one the run
\* loaded and the preview is the one computed from it).  A snapshot read that
\* fails in any other way (another status, or an error that is not an
\* ApiClientError) stores an error notice and clears the unpaid result.
C3_SnapshotFailure ==
  [][\A i \in 1..MaxTasks :
       SnapshotReadFailsAt(i) =>
         LET err == tasks[i].req[1].out.err IN
         IF err.cls = "ApiClientError" /\ err.status = 404
         THEN /\ notice' = notice
              /\ salarySnapshot' = Null
              /\ salaryPreviewAmount' = salaryPreviewAmount
              /\ unpaidByMonthResult' = unpaidByMonthResult
              /\ tasks[i].solo =>
                   /\ notice'.type = "none"
                   /\ unpaidByMonthResult' # Null
                   /\ unpaidByMonthResult'[1].debtorId = tasks[i].cap.debtorId
                   /\ salaryPreviewAmount' = PreviewOf(unpaidByMonthResult'[1])
         ELSE /\ notice' = ErrorNotice(toErrorMessage(err))
              /\ notice'.type = "error"
              /\ unpaidByMonthResult' = Null]_vars

\* a 404 of the snapshot read has been consumed after an unpaid result with an
\* installment: no notice, no snapshot, the result and the preview 4/2 - 1
C3_Witness ==
  /\ hist.snapshotRead = "notFound"
  /\ \A i \in 1..MaxTasks : tasks[i].op = "idle"
  /\ notice = NoNotice
  /\ salarySnapshot = Null
  /\ unpaidByMonthResult # Null
  /\ Len(unpaidByMonthResult[1].installments) = 1
  /\ salaryPreviewAmount = 1


(***************************************************************************)
(* reloadDebtors and the handlers around the debtor collection.            *)
(***************************************************************************)
\* response.debtors.some((debtor) => debtor.id === current.debtorId)
\*   ? current.debtorId : (response.debtors[0]?.id ?? "")
ReconciledKeepingCurrent(current, list) == InitialDebtorId(current, list)
ReconciledDebtorId(current, list) ==
  IF current \in Ids(list) THEN current
  ELSE IF list # <<>> THEN list[1].id
  ELSE ""

\* which branch of the reconciliation a selection takes (history only)
ReloadCase(current, list) ==
  IF current \in Ids(list) THEN "kept" ELSE IF list # <<>> THEN "first" ELSE "empty"

\* the Nombre <input> of the debtor form
SetDebtorFormName(name) ==
  /\ Rendered("debtors")
  /\ debtorForm.name # name
  /\ debtorForm' = [debtorForm EXCEPT !.name = name]
  /\ UNCHANGED <<clientVars, activeTab, bootLoading, notice, recurringView, monthView,
                 freeView, debtors, debtCreationDebtorContext, debtForm,
                 debtorMonthlyQuery, debtView, runVars>>

\* onSubmit of the debtor form (its inputs are `required`)
handleCreateDebtor ==
  /\ Rendered("debtors")
  /\ debtorForm.name # <<>>
  /\ notice' = NoNotice
  /\ Spawn([op |-> "handleCreateDebtor", pc |-> "createDebtor",
                       req |-> <<NewReq("createDebtor", [name |-> Trim(debtorForm.name)])>>,
                       cap |-> <<>>, solo |-> FALSE], MaxRuns)
  /\ UNCHANGED <<clientVars, activeTab, bootLoading, recurringView, monthView, freeView,
                 debtorView, debtView, boot, server>>

\* a handler that clears the debtor form when the create fails too
HandleCreateDebtorResetting(i) ==
  LET t == tasks[i]
      r == t.req[1]
  IN
  /\ t.op = "handleCreateDebtor" /\ t.pc = "createDebtor"
  /\ r.st = "served"
  /\ IF r.out.ok THEN
       /\ debtorForm' = [name |-> <<>>]
       /\ tasks' = [tasks EXCEPT ![i].pc = "reloadDebtors",
                                 ![i].req = <<NewReq("listDebtors", <<>>)>>]
       /\ UNCHANGED notice
     ELSE
       /\ notice' = ErrorNotice(toErrorMessage(r.out.err))
       /\ tasks' = [tasks EXCEPT ![i] = IdleTask]
       /\ debtorForm' = [name |-> <<>>]
  /\ UNCHANGED <<clientVars, activeTab, bootLoading, recurringView, monthView, freeView,
                 debtors, debtCreationDebtorContext, debtForm, debtorMonthlyQuery,
                 debtView, boot, server, hist>>

\* the response of createDebtor arrives: the form is reset and reloadDebtors
\* runs to its await, or the catch stores the error
HandleCreateDebtorCreated(i) ==
  LET t == tasks[i]
      r == t.req[1]
  IN
  /\ t.op = "handleCreateDebtor" /\ t.pc = "createDebtor"
  /\ r.st = "served"
  /\ IF r.out.ok THEN
       /\ debtorForm' = [name |-> <<>>]
       /\ tasks' = [tasks EXCEPT ![i].pc = "reloadDebtors",
                                 ![i].req = <<NewReq("listDebtors", <<>>)>>]
       /\ UNCHANGED notice
     ELSE
       /\ notice' = ErrorNotice(toErrorMessage(r.out.err))
       /\ tasks' = [tasks EXCEPT ![i] = IdleTask]
       /\ UNCHANGED debtorForm
  /\ UNCHANGED <<clientVars, activeTab, bootLoading, recurringView, monthView, freeView,
                 debtors, debtCreationDebtorContext, debtForm, debtorMonthlyQuery,
                 debtView, boot, server, hist>>

\* "Crear deuda" of the profile filters
openDebtsFromDebtorProfile ==
  LET found == debtorMonthlyQuery.debtorId \in Ids(debtors)
      selectedId == IF found THEN debtorMonthlyQuery.debtorId
                    ELSE unpaidByMonthResult[1].debtorId
  IN
  /\ Rendered("debtorProfile")
  /\ debtorMonthlyQuery.debtorId # ""
  /\ found \/ unpaidByMonthResult # Null
  /\ debtCreationDebtorContext' = Some([id |-> selectedId])
  /\ debtForm' = [debtForm EXCEPT !.debtorId = selectedId]
  /\ activeTab' = "debts"
  /\ UNCHANGED <<clientVars, bootLoading, notice, recurringView, monthView, freeView,
                 debtors, debtorForm, debtorMonthlyQuery, debtView, runVars>>

\* the Monto total <input> of the debt form
SetDebtFormAmount(amount) ==
  /\ Rendered("debts")
  /\ debtForm.totalAmount # amount
  /\ debtForm' = [debtForm EXCEPT !.totalAmount = amount]
  /\ UNCHANGED <<clientVars, activeTab, bootLoading, notice, recurringView, monthView,
                 freeView, debtors, debtCreationDebtorContext, debtorForm,
                 debtorMonthlyQuery, debtView, runVars>>

\* onSubmit of the debt form (its inputs are `required`)
handleCreateDebt ==
  /\ Rendered("debts")
  /\ debtForm.totalAmount # 0
  /\ notice' = NoNotice
  /\ Spawn([op |-> "handleCreateDebt", pc |-> "createDebt",
                       req |-> <<NewReq("createDebt",
                                        [debtorId |-> debtForm.debtorId,
                                         totalAmount |-> debtForm.totalAmount])>>,
                       cap |-> [debtorId |-> debtForm.debtorId], solo |-> FALSE], MaxRuns)
  /\ UNCHANGED <<clientVars, activeTab, bootLoading, recurringView, monthView, freeView,
                 debtorView, debtView, boot, server>>

\* the response of createDebt arrives: the form is reset, the success notice is
\* stored, and reloadDebtors runs to its await; or the catch stores the error
HandleCreateDebtCreated(i) ==
  LET t == tasks[i]
      r == t.req[1]
  IN
  /\ t.op = "handleCreateDebt" /\ t.pc = "createDebt"
  /\ r.st = "served"
  /\ IF r.out.ok THEN
       /\ debtForm' = [debtForm EXCEPT !.totalAmount = 0]
       /\ notice' = SuccessNotice("Deuda creada correctamente.")
       /\ tasks' = [tasks EXCEPT ![i].pc = "reloadDebtors",
                                 ![i].req = <<NewReq("listDebtors", <<>>)>>]
     ELSE
       /\ notice' = ErrorNotice(toErrorMessage(r.out.err))
       /\ tasks' = [tasks EXCEPT ![i] = IdleTask]
       /\ UNCHANGED debtForm
  /\ UNCHANGED <<clientVars, activeTab, bootLoading, recurringView, monthView, freeView,
                 debtors, debtCreationDebtorContext, debtorForm, debtorMonthlyQuery,
                 debtView, boot, server, hist>>

DebtWrites == {"handleCreateDebt", "handlePayInstallment", "confirmDeleteDebt"}

\* a reload that drops the list it read
KeptDebtors(current, list) == current

\* `setDebtors(response.debtors)`: the held list after a reload
ReloadedDebtors(current, list) == list

\* what is left of the handler that awaited reloadDebtors.  handleCreateDebtor
\* stores its success notice.  handlePayInstallment goes on, with the values
\* its closure holds: `if (activeTab === "debtorProfile") await
\* runUnpaidByMonthQuery()`, then `if (debtDetailModal) startTransition(() =>
\* void loadDebtDetail(debtDetailModal))`.
AfterReloadDebtors(i) ==
  LET t == tasks[i] IN
  CASE t.op = "handlePayInstallment" /\ t.cap.activeTab = "debtorProfile"
         /\ t.cap.query.debtorId # "" ->
         /\ LoadDebtorMonthDataStarts
         /\ tasks' = [tasks EXCEPT ![i] =
                        [LoadDebtorMonthDataTask(t.cap.query.debtorId, t.cap.query.year,
                                                 t.cap.query.month, t.cap.after)
                           EXCEPT !.solo = t.solo, !.cap.caller = t.op]]
         /\ UNCHANGED debtView
    [] t.op = "handlePayInstallment" /\ t.cap.after # Null ->
         /\ LoadDebtDetailStarts(t.cap.after[1])
         /\ tasks' = [tasks EXCEPT ![i] =
                        [DebtDetailTask(t.cap.after[1]) EXCEPT
                           !.solo = t.solo, !.cap.caller = t.op]]
         /\ UNCHANGED <<pendingDebtDelete, monthView>>
    [] OTHER ->
         /\ notice' =
              IF t.op = "handleCreateDebtor"
                THEN SuccessNotice("Deudor creado correctamente.")
              ELSE IF t.op = "handlePayInstallment" /\ t.cap.activeTab = "debtorProfile"
                THEN ErrorNotice(<<"Selecciona un deudor para buscar cuotas impagas.">>)
              ELSE notice
         /\ tasks' = [tasks EXCEPT ![i] = IdleTask]
         /\ UNCHANGED <<monthView, debtView>>

\* the response of listDebtors arrives at a run suspended in reloadDebtors:
\* the three setters, then what is left of the calling handler; or its catch
ReloadDebtorsDeliver(i) ==
  LET t == tasks[i]
      r == t.req[1]
      list == r.out.value.debtors
  IN
  /\ t.pc = "reloadDebtors"
  /\ r.st = "served"
  /\ IF r.out.ok THEN
       /\ debtors' = ReloadedDebtors(debtors, list)
       /\ debtForm' = [debtForm EXCEPT !.debtorId = ReconciledDebtorId(@, list)]
       /\ debtorMonthlyQuery' =
            [debtorMonthlyQuery EXCEPT !.debtorId = ReconciledDebtorId(@, list)]
       /\ hist' = [hist EXCEPT
                     !.reloadCases = @ \cup {ReloadCase(debtorMonthlyQuery.debtorId, list)},
                     !.lastDebtWrite = IF t.op \in DebtWrites /\ t.solo THEN t.op ELSE @]
       /\ AfterReloadDebtors(i)
     ELSE
       /\ notice' = ErrorNotice(toErrorMessage(r.out.err))
       /\ tasks' = [tasks EXCEPT ![i] = IdleTask]
       /\ UNCHANGED <<debtors, debtForm, debtorMonthlyQuery, hist, monthView, debtView>>
  /\ UNCHANGED <<clientVars, activeTab, bootLoading, recurringView, freeView,
                 debtCreationDebtorContext, debtorForm, boot, server>>

\* the backend is shared: a debtor can be removed from it by another client
DebtorVanishes(debtorId) ==
  /\ debtorId \in Ids(server.debtors)
  /\ server' = [server EXCEPT !.debtors = Filter(@, LAMBDA d : d.id # debtorId)]
  /\ UNCHANGED <<clientVars, viewVars, boot, tasks, hist>>

(***************************************************************************)
(* SpecDebtors: debtors are created, selected, used for a debt and removed *)
(* behind the application's back, with two handler runs in flight.         *)
(***************************************************************************)
InitDebtors ==
  \E dl \in {<<>>, <<Debtor(1)>>} : Started(ServerWith(dl, <<>>))

NextDebtors ==
  \/ \E tab \in {"debtors", "debtorProfile"} : SetActiveTab(tab)
  \/ \E name \in {<<"x">>} : SetDebtorFormName(name)
  \/ handleCreateDebtor
  \/ \E i \in 1..MaxTasks : HandleCreateDebtorCreated(i)
  \/ \E d \in {DebtorIdOf(n) : n \in 1..MaxDebtors} : SetQueryDebtor(d)
  \/ openDebtsFromDebtorProfile
  \/ \E a \in {1} : SetDebtFormAmount(a)
  \/ handleCreateDebt
  \/ \E i \in 1..MaxTasks : HandleCreateDebtCreated(i)
  \/ \E i \in 1..MaxTasks : ReloadDebtorsDeliver(i)
  \/ \E i \in 1..MaxTasks, k \in 1..1 : Serve(i, k)
  \/ \E d \in {DebtorIdOf(n) : n \in 1..MaxDebtors} : DebtorVanishes(d)

SpecDebtors == InitDebtors /\ [][NextDebtors]_vars

\* the step in which run i applies the debtor list it has re-read
ReloadAppliedAt(i) ==
  /\ tasks[i].pc = "reloadDebtors"
  /\ tasks[i].req[1].st = "served" /\ tasks[i].req[1].out.ok
  /\ tasks'[i].pc # "reloadDebtors"

\* C7: when a reload is applied, the held list becomes the list read, and each
\* reconciled selection (debtForm.debtorId, debtorMonthlyQuery.debtorId) is
\* unchanged if the id selected just before is in the new list, and otherwise
\* becomes the id of the first debtor of the new list, or "" if that is empty.
C7_ReloadReconciles ==
  [][\A i \in 1..MaxTasks :
       ReloadAppliedAt(i) =>
         LET list == tasks[i].req[1].out.value.debtors
             Expected(before) ==
               IF \E k \in 1..Len(list) : list[k].id = before THEN before
               ELSE IF Len(list) > 0 THEN list[1].id
               ELSE ""
         IN /\ debtors' = list
            /\ debtForm'.debtorId = Expected(debtForm.debtorId)
            /\ debtorMonthlyQuery'.debtorId = Expected(debtorMonthlyQuery.debtorId)
            /\ debtForm'.totalAmount = debtForm.totalAmount
            /\ debtorMonthlyQuery'.month = debtorMonthlyQuery.month
            /\ debtorMonthlyQuery'.year = debtorMonthlyQuery.year]_vars

\* reloads have been applied in each of the three cases: the selection kept,
\* replaced by the first debtor, and emptied; the last one emptied it
C7_Witness ==
  /\ hist.reloadCases = {"kept", "first", "empty"}
  /\ debtors = <<>>
  /\ debtorMonthlyQuery.debtorId = ""
  /\ debtForm.debtorId = ""

\* every held debtor id is empty or absent, or the id of a held debtor
HeldIdsInCollection ==
  /\ debtForm.debtorId \in Ids(debtors) \cup {""}
  /\ debtorMonthlyQuery.debtorId \in Ids(debtors) \cup {""}
  /\ debtCreationDebtorContext # Null => debtCreationDebtorContext[1].id \in Ids(debtors)

\* C8 as stated: after any reload of the debtor collection, each held debtor
\* id (the debt form's, the monthly query's and the debt-creation context's)
\* is empty or absent, or the id of a debtor of the current collection.
C8_AsStated ==
  [][\A i \in 1..MaxTasks : ReloadAppliedAt(i) => HeldIdsInCollection']_vars


(***************************************************************************)
(* Recurring expenses: the create form, the edit and delete dialogs, the   *)
(* "Recargar" buttons and reloadRecurring(type).  Amounts are whole        *)
(* numbers below 1000 here, which formatAmountInput writes without a       *)
(* separator and parseAmountInput reads back unchanged.                    *)
(***************************************************************************)
OtherType(type) == IF type = "FIXED" THEN "OPTIONAL" ELSE "FIXED"

\* const typeToRefresh = recurringForm.type / recurringEditing.type; target.type
RefreshedTypeFixed(type) == "FIXED"
RefreshedType(type) == type

\* Promise.all([api.listRecurringExpenses(type), api.getRecurringExpenseTotal(type)])
ReloadRecurringReads(type) ==
  <<NewReq("listRecurringExpenses", [type |-> type]),
    NewReq("getRecurringExpenseTotal", [type |-> type])>>

\* what a run keeps about the expense it acts on; `before` is the other
\* partition as held when the handler was called (history only)
RecurringTarget(type, id, amount) ==
  [type |-> type, id |-> id, amount |-> amount,
   before |-> [list |-> recurringExpenses[OtherType(type)],
               total |-> recurringTotals[OtherType(type)]]]

\* the Monto <input> and the Tipo <select> of the create form
SetRecurringFormAmount(amount) ==
  /\ Rendered("recurring")
  /\ recurringForm.amount # amount
  /\ recurringForm' = [recurringForm EXCEPT !.amount = amount]
  /\ UNCHANGED <<clientVars, activeTab, bootLoading, notice, recurringExpenses,
                 recurringTotals, pendingRecurringDelete, recurringEditing, monthView,
                 freeView, debtorView, debtView, runVars>>

SetRecurringFormType(type) ==
  /\ Rendered("recurring")
  /\ recurringForm.type # type
  /\ recurringForm' = [recurringForm EXCEPT !.type = type]
  /\ UNCHANGED <<clientVars, activeTab, bootLoading, notice, recurringExpenses,
                 recurringTotals, pendingRecurringDelete, recurringEditing, monthView,
                 freeView, debtorView, debtView, runVars>>

\* a handler that writes a recurring expense runs to its first await
RecurringWriteCall(op, api, arg, target) ==
  /\ notice' = NoNotice
  /\ Spawn([op |-> op, pc |-> "write", req |-> <<NewReq(api, arg)>>,
                       cap |-> target, solo |-> FALSE], MaxRecurringRuns)

\* onSubmit of the create form (its inputs are `required`)
handleCreateRecurringExpense ==
  /\ Rendered("recurring")
  /\ recurringForm.amount # 0
  /\ RecurringWriteCall("handleCreateRecurringExpense", "createRecurringExpense",
                        [amount |-> recurringForm.amount, type |-> recurringForm.type],
                        RecurringTarget(recurringForm.type, "", recurringForm.amount))
  /\ UNCHANGED <<clientVars, activeTab, bootLoading, recurringView, monthView, freeView,
                 debtorView, debtView, boot, server>>

\* the pencil button of item k of a partition
EditRecurringExpense(type, k) ==
  /\ Rendered("recurring")
  /\ k \in 1..Len(recurringExpenses[type])
  /\ recurringEditing' = Some([id |-> recurringExpenses[type][k].id, type |-> type,
                               amount |-> recurringExpenses[type][k].amount])
  /\ recurringEditing' # recurringEditing
  /\ UNCHANGED <<clientVars, activeTab, bootLoading, notice, recurringExpenses,
                 recurringTotals, pendingRecurringDelete, recurringForm, monthView,
                 freeView, debtorView, debtView, runVars>>

\* the Monto <input> of the edit dialog
SetRecurringEditingAmount(amount) ==
  /\ recurringEditing # Null /\ pendingRecurringDelete = Null
  /\ recurringEditing[1].amount # amount
  /\ recurringEditing' = Some([recurringEditing[1] EXCEPT !.amount = amount])
  /\ UNCHANGED <<clientVars, activeTab, bootLoading, notice, recurringExpenses,
                 recurringTotals, pendingRecurringDelete, recurringForm, monthView,
                 freeView, debtorView, debtView, runVars>>

\* "Cancelar" and the backdrop of the edit dialog
CancelRecurringEditing ==
  /\ recurringEditing # Null /\ pendingRecurringDelete = Null
  /\ recurringEditing' = Null
  /\ UNCHANGED <<clientVars, activeTab, bootLoading, notice, recurringExpenses,
                 recurringTotals, pendingRecurringDelete, recurringForm, monthView,
                 freeView, debtorView, debtView, runVars>>

\* onSubmit of the edit dialog
handleUpdateRecurringExpense ==
  /\ recurringEditing # Null /\ pendingRecurringDelete = Null
  /\ RecurringWriteCall("handleUpdateRecurringExpense", "updateRecurringExpense",
                        [id |-> recurringEditing[1].id,
                         amount |-> recurringEditing[1].amount],
                        RecurringTarget(recurringEditing[1].type, recurringEditing[1].id,
                                        recurringEditing[1].amount))
  /\ UNCHANGED <<clientVars, activeTab, bootLoading, recurringView, monthView, freeView,
                 debtorView, debtView, boot, server>>

\* "Eliminar" of the edit dialog
handleDeleteRecurringExpense ==
  /\ recurringEditing # Null /\ pendingRecurringDelete = Null
  /\ pendingRecurringDelete' = Some([id |-> recurringEditing[1].id,
                                     type |-> recurringEditing[1].type])
  /\ pendingRecurringDelete' # pendingRecurringDelete
  /\ UNCHANGED <<clientVars, activeTab, bootLoading, notice, recurringExpenses,
                 recurringTotals, recurringForm, recurringEditing, monthView, freeView,
                 debtorView, debtView, runVars>>

\* the cross button of item k of a partition
AskDeleteRecurringExpense(type, k) ==
  /\ Rendered("recurring")
  /\ k \in 1..Len(recurringExpenses[type])
  /\ pendingRecurringDelete' = Some([id |-> recurringExpenses[type][k].id, type |-> type])
  /\ pendingRecurringDelete' # pendingRecurringDelete
  /\ UNCHANGED <<clientVars, activeTab, bootLoading, notice, recurringExpenses,
                 recurringTotals, recurringForm, recurringEditing, monthView, freeView,
                 debtorView, debtView, runVars>>

\* "Cancelar" and the backdrop of the confirmation dialog
CancelPendingRecurringDelete ==
  /\ pendingRecurringDelete # Null
  /\ pendingRecurringDelete' = Null
  /\ UNCHANGED <<clientVars, activeTab, bootLoading, notice, recurringExpenses,
                 recurringTotals, recurringForm, recurringEditing, monthView, freeView,
                 debtorView, debtView, runVars>>

\* a confirmation that leaves the pending target in place
confirmDeleteRecurringExpenseKeepingTarget ==
  /\ pendingRecurringDelete # Null
  /\ pendingRecurringDelete' = pendingRecurringDelete
  /\ RecurringWriteCall("deleteRecurringExpenseByTarget", "deleteRecurringExpense",
                        [id |-> pendingRecurringDelete[1].id],
                        RecurringTarget(pendingRecurringDelete[1].type,
                                        pendingRecurringDelete[1].id, 0))
  /\ UNCHANGED <<clientVars, activeTab, bootLoading, recurringExpenses, recurringTotals,
                 recurringForm, recurringEditing, monthView, freeView, debtorView,
                 debtView, boot, server>>

\* "Si, eliminar": confirmDeleteRecurringExpense, then
\* deleteRecurringExpenseByTarget(target) up to its await
confirmDeleteRecurringExpense ==
  /\ pendingRecurringDelete # Null
  /\ pendingRecurringDelete' = Null
  /\ RecurringWriteCall("deleteRecurringExpenseByTarget", "deleteRecurringExpense",
                        [id |-> pendingRecurringDelete[1].id],
                        RecurringTarget(pendingRecurringDelete[1].type,
                                        pendingRecurringDelete[1].id, 0))
  /\ UNCHANGED <<clientVars, activeTab, bootLoading, recurringExpenses, recurringTotals,
                 recurringForm, recurringEditing, monthView, freeView, debtorView,
                 debtView, boot, server>>

\* "Recargar" of a partition: void reloadRecurring(type), inside no try
ReloadRecurringButton(type) ==
  /\ Rendered("recurring")
  /\ Spawn([op |-> "reloadRecurring", pc |-> "reloadRecurring",
                       req |-> ReloadRecurringReads(type),
                       cap |-> RecurringTarget(type, "", 0), solo |-> FALSE], MaxRecurringRuns)
  /\ UNCHANGED <<clientVars, viewVars, boot, server>>

RecurringWrites ==
  {"handleCreateRecurringExpense", "handleUpdateRecurringExpense",
   "deleteRecurringExpenseByTarget"}

\* the response of the write arrives: what the handler does between its two
\* awaits, up to the Promise.all of reloadRecurring; or its catch
RecurringWriteDeliver(i) ==
  LET t == tasks[i]
      r == t.req[1]
  IN
  /\ t.op \in RecurringWrites /\ t.pc = "write"
  /\ r.st = "served"
  /\ IF r.out.ok THEN
       /\ recurringForm' = IF t.op = "handleCreateRecurringExpense"
                           THEN [amount |-> 0, type |-> t.cap.type]
                           ELSE recurringForm
       /\ recurringEditing' =
            CASE t.op = "handleUpdateRecurringExpense" -> Null
              [] t.op = "deleteRecurringExpenseByTarget" ->
                   IF recurringEditing # Null /\ recurringEditing[1].id = t.cap.id
                   THEN Null ELSE recurringEditing
              [] OTHER -> recurringEditing
       /\ tasks' = [tasks EXCEPT
                      ![i].pc = "reloadRecurring",
                      ![i].req = ReloadRecurringReads(RefreshedType(t.cap.type)),
                      ![i].cap.id = IF t.op = "handleCreateRecurringExpense"
                                    THEN r.out.value.id ELSE @]
       /\ UNCHANGED notice
     ELSE
       /\ notice' = ErrorNotice(toErrorMessage(r.out.err))
       /\ tasks' = [tasks EXCEPT ![i] = IdleTask]
       /\ UNCHANGED <<recurringForm, recurringEditing>>
  /\ UNCHANGED <<clientVars, activeTab, bootLoading, recurringExpenses, recurringTotals,
                 pendingRecurringDelete, monthView, freeView, debtorView, debtView,
                 boot, server, hist>>

RecurringSuccessText(op) ==
  CASE op = "handleCreateRecurringExpense" -> "Gasto recurrente creado."
    [] op = "handleUpdateRecurringExpense" -> "Gasto recurrente actualizado."
    [] OTHER -> "Gasto recurrente eliminado."

\* a reload that stores each of its two reads as it arrives
ReloadRecurringDeliverEach(i, k) ==
  LET t == tasks[i]
      r == t.req[k]
      type == t.req[k].arg.type
      other == t.req[3 - k]
  IN
  /\ t.pc = "reloadRecurring"
  /\ r.st = "served"
  /\ IF ~r.out.ok THEN
       /\ notice' = IF t.op \in RecurringWrites
                    THEN ErrorNotice(toErrorMessage(r.out.err)) ELSE notice
       /\ tasks' = [tasks EXCEPT ![i] = IdleTask]
       /\ hist' = [hist EXCEPT !.unhandled = IF t.op \in RecurringWrites THEN @ ELSE TRUE]
       /\ UNCHANGED <<recurringExpenses, recurringTotals>>
     ELSE IF other.st = "delivered" THEN
       /\ recurringExpenses' =
            [recurringExpenses EXCEPT
               ![type] = IF k = 1 THEN r.out.value.recurringExpenses
                         ELSE other.out.value.recurringExpenses]
       /\ recurringTotals' =
            [recurringTotals EXCEPT
               ![type] = IF k = 2 THEN r.out.value.total ELSE other.out.value.total]
       /\ notice' = IF t.op \in RecurringWrites
                    THEN SuccessNotice(RecurringSuccessText(t.op)) ELSE notice
       /\ hist' = [hist EXCEPT !.lastWrite =
                     IF t.op \in RecurringWrites /\ t.solo THEN t.op ELSE @]
       /\ tasks' = [tasks EXCEPT ![i] = IdleTask]
     ELSE
       /\ tasks' = [tasks EXCEPT ![i].req[k].st = "delivered"]
       /\ recurringExpenses' =
            IF k = 1 THEN [recurringExpenses EXCEPT ![type] = r.out.value.recurringExpenses]
            ELSE recurringExpenses
       /\ recurringTotals' =
            IF k = 2 THEN [recurringTotals EXCEPT ![type] = r.out.value.total]
            ELSE recurringTotals
       /\ UNCHANGED <<notice, hist>>
  /\ UNCHANGED <<clientVars, activeTab, bootLoading, pendingRecurringDelete,
                 recurringForm, recurringEditing, monthView, freeView, debtorView,
                 debtView, boot, server>>

\* the response of read k of reloadRecurring(type) arrives.  Promise.all
\* rejects on the first read that fails (the other response is then dropped)
\* and fulfils when both have succeeded: the two functional setters run, then
\* what is left of the calling handler.  A rejection reaches the handler's
\* catch; behind the "Recargar" button nothing catches it.
ReloadRecurringDeliver(i, k) ==
  LET t == tasks[i]
      r == t.req[k]
      type == t.req[k].arg.type
      other == t.req[3 - k]
  IN
  /\ t.pc = "reloadRecurring"
  /\ r.st = "served"
  /\ IF ~r.out.ok THEN
       /\ notice' = IF t.op \in RecurringWrites
                    THEN ErrorNotice(toErrorMessage(r.out.err)) ELSE notice
       /\ tasks' = [tasks EXCEPT ![i] = IdleTask]
       /\ hist' = [hist EXCEPT !.unhandled = IF t.op \in RecurringWrites THEN @ ELSE TRUE]
       /\ UNCHANGED <<recurringExpenses, recurringTotals>>
     ELSE IF other.st = "delivered" THEN
       /\ recurringExpenses' =
            [recurringExpenses EXCEPT
               ![type] = IF k = 1 THEN r.out.value.recurringExpenses
                         ELSE other.out.value.recurringExpenses]
       /\ recurringTotals' =
            [recurringTotals EXCEPT
               ![type] = IF k = 2 THEN r.out.value.total ELSE other.out.value.total]
       /\ notice' = IF t.op \in RecurringWrites
                    THEN SuccessNotice(RecurringSuccessText(t.op)) ELSE notice
       /\ hist' = [hist EXCEPT !.lastWrite =
                     IF t.op \in RecurringWrites /\ t.solo THEN t.op ELSE @]
       /\ tasks' = [tasks EXCEPT ![i] = IdleTask]
     ELSE
       /\ tasks' = [tasks EXCEPT ![i].req[k].st = "delivered"]
       /\ UNCHANGED <<recurringExpenses, recurringTotals, notice, hist>>
  /\ UNCHANGED <<clientVars, activeTab, bootLoading, pendingRecurringDelete,
                 recurringForm, recurringEditing, monthView, freeView, debtorView,
                 debtView, boot, server>>

(***************************************************************************)
(* SpecRecurring: the recurring expenses tab, with two handler runs in     *)
(* flight and a backend that may already hold an OPTIONAL expense.         *)
(***************************************************************************)
RecurringBackend(optionalList) ==
  [ServerWith(<<>>, <<>>) EXCEPT !.recurring.OPTIONAL = optionalList,
                                !.madeExpenses = Len(optionalList)]

InitRecurring ==
  \E ol \in {<<>>, <<Expense(1, 1)>>} : Started(RecurringBackend(ol))

NextRecurring ==
  \/ \E tab \in {"recurring"} : SetActiveTab(tab)
  \/ \E a \in {1} : SetRecurringFormAmount(a)
  \/ \E type \in ExpenseTypes : SetRecurringFormType(type)
  \/ handleCreateRecurringExpense
  \/ \E type \in ExpenseTypes, k \in 1..MaxExpenses : EditRecurringExpense(type, k)
  \/ \E a \in {2} : SetRecurringEditingAmount(a)
  \/ CancelRecurringEditing
  \/ handleUpdateRecurringExpense
  \/ handleDeleteRecurringExpense
  \/ \E type \in ExpenseTypes, k \in 1..MaxExpenses : AskDeleteRecurringExpense(type, k)
  \/ CancelPendingRecurringDelete
  \/ confirmDeleteRecurringExpense
  \/ \E type \in ExpenseTypes : ReloadRecurringButton(type)
  \/ \E i \in 1..MaxTasks : RecurringWriteDeliver(i)
  \/ \E i \in 1..MaxTasks, k \in 1..2 : ReloadRecurringDeliver(i, k)
  \/ \E i \in 1..MaxTasks, k \in 1..2 : Serve(i, k)

SpecRecurring == InitRecurring /\ [][NextRecurring]_vars


\* the step in which run i of a create, update or delete applies the two
\* reads of its scoped reload
RecurringAppliedAt(i) ==
  /\ tasks[i].op \in RecurringWrites /\ tasks[i].pc = "reloadRecurring"
  /\ \A k \in 1..2 : /\ tasks[i].req[k].st \in {"served", "delivered"}
                     /\ tasks[i].req[k].out.ok
  /\ tasks'[i].op = "idle"

Occurrences(list, id) == Cardinality({k \in 1..Len(list) : list[k].id = id})

\* C9 as stated: after a successful create, update or delete of a recurring
\* expense of type T and the scoped reload of T, the T list and total are the
\* backend's current list and total for T, and the list and total of the other
\* partition are what they were before the action.
C9_AsStated ==
  [][\A i \in 1..MaxTasks :
       RecurringAppliedAt(i) =>
         LET T == tasks[i].cap.type
             U == OtherType(tasks[i].cap.type)
         IN /\ recurringExpenses'[T] = server.recurring[T]
            /\ recurringTotals'[T] = SumAmounts(server.recurring[T])
            /\ recurringExpenses'[U] = tasks[i].cap.before.list
            /\ recurringTotals'[U] = tasks[i].cap.before.total]_vars

\* C9, amended: the scoped reload after a successful create, update or delete
\* of a recurring expense of type T stores the list and the total it read for
\* T in the T partition and leaves the other partition as it is at that
\* moment.  When no other handler run overlaps the action, the T list and
\* total are the backend's current ones (a created expense is in the list
\* exactly once with its amount, an updated one has its new amount, a deleted
\* one is absent, and the total is the sum of the list), and the other
\* partition is what it was before the action.  When runs overlap, the list
\* and the total stored come from two separate reads and may be older than
\* the backend's current data, and the other partition may have been
\* refreshed by the other run in between.
C9_ScopedReload ==
  [][\A i \in 1..MaxTasks :
       RecurringAppliedAt(i) =>
         LET t == tasks[i]
             T == t.cap.type
             U == OtherType(t.cap.type)
             list == recurringExpenses'[T]
         IN /\ list = t.req[1].out.value.recurringExpenses
            /\ recurringTotals'[T] = t.req[2].out.value.total
            /\ recurringExpenses'[U] = recurringExpenses[U]
            /\ recurringTotals'[U] = recurringTotals[U]
            /\ t.solo =>
                 /\ list = server.recurring[T]
                 /\ recurringTotals'[T] = SumAmounts(list)
                 /\ recurringExpenses'[U] = t.cap.before.list
                 /\ recurringTotals'[U] = t.cap.before.total
                 /\ CASE t.op = "handleCreateRecurringExpense" ->
                           /\ Occurrences(list, t.cap.id) = 1
                           /\ \E k \in 1..Len(list) :
                                list[k] = [id |-> t.cap.id, amount |-> t.cap.amount]
                      [] t.op = "handleUpdateRecurringExpense" ->
                           \A k \in 1..Len(list) :
                             list[k].id = t.cap.id => list[k].amount = t.cap.amount
                      [] OTHER -> Occurrences(list, t.cap.id) = 0]_vars

\* an expense of amount 1 has been created as FIXED by a run that nothing
\* overlapped, next to an OPTIONAL expense of the backend: it is in the FIXED
\* list once, the FIXED total is 1, and the OPTIONAL partition is as loaded
C9_Witness ==
  /\ hist.lastWrite = "handleCreateRecurringExpense"
  /\ \A i \in 1..MaxTasks : tasks[i].op = "idle"
  /\ recurringExpenses.FIXED = <<Expense(2, 1)>>
  /\ recurringTotals.FIXED = 1
  /\ recurringExpenses.OPTIONAL = <<Expense(1, 1)>>
  /\ recurringTotals.OPTIONAL = 1
  /\ notice = SuccessNotice("Gasto recurrente creado.")


(***************************************************************************)
(* The debt detail dialog, paying an installment and deleting a debt.      *)
(***************************************************************************)
\* the description button of row k of the unpaid installments table
openDebtDetailFromInstallment(k) ==
  /\ Rendered("debtorProfile")
  /\ unpaidByMonthResult # Null
  /\ k \in 1..Len(unpaidByMonthResult[1].installments)
  /\ LET target == [debtorId |-> unpaidByMonthResult[1].debtorId,
                    debtId |-> unpaidByMonthResult[1].installments[k].debtId]
     IN /\ LoadDebtDetailStarts(target)
        /\ Spawn(DebtDetailTask(target), MaxRuns)
  /\ UNCHANGED <<clientVars, activeTab, bootLoading, recurringView, monthView, freeView,
                 debtorView, pendingDebtDelete, boot, server>>

\* the response of getDebtDetail arrives
LoadDebtDetailDeliver(i) ==
  LET t == tasks[i]
      r == t.req[1]
  IN
  /\ t.op = "loadDebtDetail" /\ t.pc = "getDebtDetail"
  /\ r.st = "served"
  /\ IF r.out.ok THEN
       /\ debtDetailModal' = IF debtDetailModal # Null
                             THEN Some([debtDetailModal[1] EXCEPT !.debtorId = r.out.value.id])
                             ELSE debtDetailModal
       /\ debtDetail' = Some(r.out.value.debt)
       /\ UNCHANGED notice
     ELSE
       /\ notice' = ErrorNotice(toErrorMessage(r.out.err))
       /\ debtDetailModal' = Null
       /\ UNCHANGED debtDetail
  /\ debtDetailLoading' = FALSE
  /\ tasks' = [tasks EXCEPT ![i] = IdleTask]
  /\ UNCHANGED <<clientVars, activeTab, bootLoading, recurringView, monthView, freeView,
                 debtorView, pendingDebtDelete, debtDetailPage, boot, server, hist>>

\* "Cerrar" and the backdrop of the detail dialog
CloseDebtDetail ==
  /\ debtDetailModal # Null
  /\ debtDetailModal' = Null
  /\ UNCHANGED <<clientVars, activeTab, bootLoading, notice, recurringView, monthView,
                 freeView, debtorView, pendingDebtDelete, debtDetail, debtDetailLoading, debtDetailPage,
                 runVars>>

DEBT_DETAIL_PAGE_SIZE == 5

\* Math.max(1, Math.ceil(debtDetail.installments.length / DEBT_DETAIL_PAGE_SIZE))
debtDetailTotalPages ==
  IF debtDetail # Null
  THEN LET pages == (Len(debtDetail[1].installments) + DEBT_DETAIL_PAGE_SIZE - 1)
                      \div DEBT_DETAIL_PAGE_SIZE
       IN IF pages > 1 THEN pages ELSE 1
  ELSE 1

\* Array.prototype.slice(start, end)
Slice(items, start, end) ==
  LET last == IF end < Len(items) THEN end ELSE Len(items)
  IN IF start >= last THEN <<>> ELSE SubSeq(items, start + 1, last)

\* the installments of the page shown
debtDetailVisibleInstallments ==
  IF debtDetail # Null
  THEN Slice(debtDetail[1].installments, (debtDetailPage - 1) * DEBT_DETAIL_PAGE_SIZE,
             debtDetailPage * DEBT_DETAIL_PAGE_SIZE)
  ELSE <<>>

\* whether the detail dialog shows a debt (not "Cargando detalle...")
DetailShown == debtDetailModal # Null /\ ~debtDetailLoading /\ debtDetail # Null

\* whether the pagination controls are rendered
PaginationShown ==
  DetailShown /\ Len(debtDetail[1].installments) > DEBT_DETAIL_PAGE_SIZE

\* "Anterior" (disabled on the first page)
PreviousDebtDetailPage ==
  /\ PaginationShown
  /\ ~(debtDetailPage <= 1)
  /\ debtDetailPage' = (IF debtDetailPage - 1 > 1 THEN debtDetailPage - 1 ELSE 1)
  /\ UNCHANGED <<clientVars, activeTab, bootLoading, notice, recurringView, monthView,
                 freeView, debtorView, pendingDebtDelete, debtDetailModal, debtDetail,
                 debtDetailLoading, runVars>>

\* "Siguiente" (disabled on the last page)
NextDebtDetailPage ==
  /\ PaginationShown
  /\ ~(debtDetailPage >= debtDetailTotalPages)
  /\ debtDetailPage' = (IF debtDetailTotalPages < debtDetailPage + 1
                        THEN debtDetailTotalPages ELSE debtDetailPage + 1)
  /\ UNCHANGED <<clientVars, activeTab, bootLoading, notice, recurringView, monthView,
                 freeView, debtorView, pendingDebtDelete, debtDetailModal, debtDetail,
                 debtDetailLoading, runVars>>

\* "Eliminar deuda" of the detail dialog
AskDeleteDebt ==
  /\ DetailShown
  /\ debtDetailModal' = Null
  /\ pendingDebtDelete' = Some([debtId |-> debtDetail[1].id])
  /\ UNCHANGED <<clientVars, activeTab, bootLoading, notice, recurringView, monthView,
                 freeView, debtorView, debtDetail, debtDetailLoading, debtDetailPage, runVars>>

\* "Cancelar" and the backdrop of the confirmation dialog
CancelPendingDebtDelete ==
  /\ pendingDebtDelete # Null
  /\ pendingDebtDelete' = Null
  /\ UNCHANGED <<clientVars, activeTab, bootLoading, notice, recurringView, monthView,
                 freeView, debtorView, debtDetailModal, debtDetail, debtDetailLoading, debtDetailPage,
                 runVars>>

\* "Si, eliminar deuda"
confirmDeleteDebt ==
  /\ pendingDebtDelete # Null
  /\ pendingDebtDelete' = Null
  /\ notice' = NoNotice
  /\ Spawn([op |-> "confirmDeleteDebt", pc |-> "deleteDebt",
            req |-> <<NewReq("deleteDebt", [debtId |-> pendingDebtDelete[1].debtId])>>,
            cap |-> [debtId |-> pendingDebtDelete[1].debtId], solo |-> FALSE], MaxRuns)
  /\ UNCHANGED <<clientVars, activeTab, bootLoading, recurringView, monthView, freeView,
                 debtorView, debtDetailModal, debtDetail, debtDetailLoading, debtDetailPage, boot, server>>

\* the unpaid installments that show a pay button: the rows of the profile
\* table, or the rows of the detail dialog when it is open
PayableInstallments ==
  IF DetailShown
  THEN {debtDetailVisibleInstallments[k].id :
          k \in {j \in 1..Len(debtDetailVisibleInstallments) :
                   ~debtDetailVisibleInstallments[j].paid}}
  ELSE IF Rendered("debtorProfile") /\ unpaidByMonthResult # Null
  THEN {unpaidByMonthResult[1].installments[k].id :
          k \in {j \in 1..Len(unpaidByMonthResult[1].installments) :
                   ~unpaidByMonthResult[1].installments[j].paid}}
  ELSE {}

\* "Pagar" / "Pagar ahora"
handlePayInstallment(installmentId) ==
  /\ ~bootLoading
  /\ pendingDebtDelete = Null
  /\ installmentId \in PayableInstallments
  /\ notice' = NoNotice
  /\ Spawn([op |-> "handlePayInstallment", pc |-> "payInstallment",
            req |-> <<NewReq("payInstallment", [id |-> installmentId])>>,
            cap |-> [activeTab |-> activeTab, query |-> debtorMonthlyQuery,
                     after |-> debtDetailModal],
            solo |-> FALSE], MaxRuns)
  /\ UNCHANGED <<clientVars, activeTab, bootLoading, recurringView, monthView, freeView,
                 debtorView, debtView, boot, server>>

DebtSuccessText(op) ==
  IF op = "handlePayInstallment" THEN "Cuota marcada como pagada."
  ELSE "Deuda eliminada correctamente."

\* the response of payInstallment or deleteDebt arrives: the success notice
\* is stored and reloadDebtors runs to its await; or the catch stores the error
DebtWriteDeliver(i) ==
  LET t == tasks[i]
      r == t.req[1]
  IN
  /\ t.op \in {"handlePayInstallment", "confirmDeleteDebt"}
  /\ t.pc \in {"payInstallment", "deleteDebt"}
  /\ r.st = "served"
  /\ IF r.out.ok THEN
       /\ notice' = SuccessNotice(DebtSuccessText(t.op))
       /\ tasks' = [tasks EXCEPT ![i].pc = "reloadDebtors",
                                 ![i].req = <<NewReq("listDebtors", <<>>)>>]
       /\ hist' = [hist EXCEPT !.paid = IF t.op = "handlePayInstallment"
                                        THEN @ \cup {r.arg.id} ELSE @]
     ELSE
       /\ notice' = ErrorNotice(toErrorMessage(r.out.err))
       /\ tasks' = [tasks EXCEPT ![i] = IdleTask]
       /\ UNCHANGED hist
  /\ UNCHANGED <<clientVars, activeTab, bootLoading, recurringView, monthView, freeView,
                 debtorView, debtView, boot, server>>

(***************************************************************************)
(* SpecDebts: debts are created from the profile, paid and deleted.  The   *)
(* backend holds two debtors; the first may owe an installment.            *)
(***************************************************************************)
InitDebts == \E owes \in BOOLEAN : Started(MonthBackend(owes, {}))

NextDebts ==
  \/ \E tab \in {"debtorProfile"} : SetActiveTab(tab)
  \/ \E d \in {DebtorIdOf(1)} : openDebtorProfile(d)
  \/ \E d \in {DebtorIdOf(1), DebtorIdOf(2)} : SetQueryDebtor(d)
  \/ \E m \in Months : SetQueryMonth(m)
  \/ \E i \in 1..MaxTasks : LoadDebtorMonthDataUnpaid(i)
  \/ \E i \in 1..MaxTasks : LoadDebtorMonthDataFree(i)
  \/ \E i \in 1..MaxTasks : LoadDebtorMonthDataSnapshot(i)
  \/ openDebtsFromDebtorProfile
  \/ \E a \in {1} : SetDebtFormAmount(a)
  \/ handleCreateDebt
  \/ \E i \in 1..MaxTasks : HandleCreateDebtCreated(i)
  \/ \E k \in 1..MaxDebts : openDebtDetailFromInstallment(k)
  \/ \E i \in 1..MaxTasks : LoadDebtDetailDeliver(i)
  \/ CloseDebtDetail
  \/ AskDeleteDebt
  \/ CancelPendingDebtDelete
  \/ confirmDeleteDebt
  \/ \E n \in 1..MaxDebts : handlePayInstallment(InstallmentId(n))
  \/ \E i \in 1..MaxTasks : DebtWriteDeliver(i)
  \/ \E i \in 1..MaxTasks : ReloadDebtorsDeliver(i)
  \/ \E i \in 1..MaxTasks, k \in 1..1 : Serve(i, k)

SpecDebts == InitDebts /\ [][NextDebts]_vars


\* the run in slot i consumes the successful response of its debt mutation
DebtWriteSucceedsAt(i) ==
  /\ tasks[i].op \in DebtWrites
  /\ tasks[i].pc \in {"createDebt", "payInstallment", "deleteDebt"}
  /\ tasks[i].req[1].st = "served" /\ tasks[i].req[1].out.ok
  /\ tasks'[i].pc # tasks[i].pc

\* the run in slot i, whose debt mutation succeeded, leaves reloadDebtors
DebtReloadEndsAt(i) ==
  /\ tasks[i].op \in DebtWrites
  /\ tasks[i].pc = "reloadDebtors"
  /\ tasks[i].req[1].st = "served"
  /\ tasks'[i].pc # "reloadDebtors"

ShowsDebt(result, debtId) ==
  \E k \in 1..Len(result.installments) : result.installments[k].debtId = debtId

\* C11 as stated, for delete-debt: when a debt has been deleted and its
\* re-read is over while the profile shows unpaid installments of that debt,
\* the unpaid-installments view is re-fetched (a load of it is started) or no
\* longer lists installments of the deleted debt.
C11_AsStated ==
  [][\A i \in 1..MaxTasks :
       (/\ DebtReloadEndsAt(i)
        /\ tasks[i].op = "confirmDeleteDebt"
        /\ activeTab = "debtorProfile"
        /\ unpaidByMonthResult # Null
        /\ ShowsDebt(unpaidByMonthResult[1], tasks[i].cap.debtId))
       => \/ tasks'[i].op = "loadDebtorMonthData"
          \/ unpaidByMonthResult' = Null
          \/ ~ShowsDebt(unpaidByMonthResult'[1], tasks[i].cap.debtId)]_vars


\* the query (debtor, year, month) an unpaid-installments result answers
QueryOf(result) ==
  [debtorId |-> result.debtorId, year |-> result.year, month |-> result.month]

\* C12 as stated, for the query view: the re-fetch that follows a paid
\* installment reads the query of the result on display (the one the paid
\* installment was listed in), so that the view is not overwritten with the
\* result of another debtor or month, also when the filter form was changed
\* since the result was loaded.
C12_AsStated ==
  [][\A i \in 1..MaxTasks :
       (/\ DebtReloadEndsAt(i)
        /\ tasks[i].op = "handlePayInstallment"
        /\ tasks'[i].op = "loadDebtorMonthData"
        /\ unpaidByMonthResult # Null)
       => tasks'[i].req[1].arg = QueryOf(unpaidByMonthResult[1])]_vars


\* the step in which run i of loadDebtorMonthData consumes a response (ok) or
\* a failure (~ok) of the read it is suspended at
MonthReadEndsAt(i, pc, ok) ==
  /\ tasks[i].op = "loadDebtorMonthData" /\ tasks[i].pc = pc
  /\ tasks[i].req[1].st = "served" /\ tasks[i].req[1].out.ok = ok
  /\ tasks'[i].pc # pc

\* the unpaid amounts the backend holds for a debtor and month, paid ones left out
UnpaidTotal(debtorId, year, month) ==
  LET Due == {k \in 1..Len(server.installments) :
                /\ server.installments[k].debtorId = debtorId
                /\ server.installments[k].year = year
                /\ server.installments[k].month = month
                /\ ~server.installments[k].paid}
      RECURSIVE Sum(_)
      Sum(ks) == IF ks = {} THEN 0
                 ELSE LET k == CHOOSE x \in ks : TRUE
                      IN server.installments[k].amount + Sum(ks \ {k})
  IN Sum(Due)

MonthReadIssuedAt(i, pc) ==
  /\ tasks'[i].op = "loadDebtorMonthData" /\ tasks'[i].pc = pc
  /\ ~(tasks[i].op = "loadDebtorMonthData" /\ tasks[i].pc = pc)

\* C14: within one run of loadDebtorMonthData the reads are sequenced.  The
\* monthly-free-amount request is issued only in the step that consumes the
\* successful unpaid-installments response of the run (which stores the
\* result); the salary-snapshot request is issued only in the step that
\* consumes the successful monthly-free-amount response of the run, which
\* stores the preview; each request is issued unanswered; and a run whose
\* unpaid or free read fails issues no further read: it is over.
C14_Sequenced ==
  [][\A i \in 1..MaxTasks :
       LET t == tasks[i]
           r == t.req[1]
       IN
       /\ MonthReadIssuedAt(i, "getMonthlyFreeAmount")
          => /\ MonthReadEndsAt(i, "getUnpaidInstallmentsByMonth", TRUE)
             /\ unpaidByMonthResult' = Some(r.out.value)
             /\ tasks'[i].req[1].api = "getMonthlyFreeAmount"
             /\ tasks'[i].req[1].st = "sent"
       /\ MonthReadIssuedAt(i, "getSalarySnapshot")
          => /\ MonthReadEndsAt(i, "getMonthlyFreeAmount", TRUE)
             /\ salaryPreviewAmount' =
                  (r.out.value.monthlyFreeAmount \div 2) - t.cap.totalInstallments
             /\ tasks'[i].req[1].api = "getSalarySnapshot"
             /\ tasks'[i].req[1].st = "sent"
       /\ MonthReadIssuedAt(i, "getUnpaidInstallmentsByMonth")
          => /\ t.op # "loadDebtorMonthData"
             /\ tasks'[i].req[1].api = "getUnpaidInstallmentsByMonth"
             /\ tasks'[i].req[1].st = "sent"
       /\ \A pc \in {"getUnpaidInstallmentsByMonth", "getMonthlyFreeAmount"} :
            MonthReadEndsAt(i, pc, FALSE) => tasks'[i].op # "loadDebtorMonthData"]_vars

\* a run has read the unpaid installment and the free amount, has stored the
\* preview, and now awaits the snapshot it has just asked for
C14_Witness ==
  \E i \in 1..MaxTasks :
    /\ tasks[i].op = "loadDebtorMonthData" /\ tasks[i].pc = "getSalarySnapshot"
    /\ tasks[i].req[1].st = "sent"
    /\ tasks[i].solo
    /\ unpaidByMonthResult # Null /\ Len(unpaidByMonthResult[1].installments) = 1
    /\ salaryPreviewAmount = 1
    /\ salarySnapshotLoading


(***************************************************************************)
(* SpecRefresh: the refreshes of each tab, triggered while another run of  *)
(* the same refresh is in flight.  The application has started and the     *)
(* user has clicked one of the four tabs.                                  *)
(***************************************************************************)
Years == {CurrentYear, CurrentYear + 1}

\* onSubmit of "Monto libre por mes": void loadMonthlyFreeAmount(monthlyFreeAmountYear)
\* with the year typed in the form; the run up to its await
SubmitMonthlyFreeAmount(year) ==
  /\ Rendered("salary")
  /\ monthlyFreeAmountLoading' = TRUE
  /\ notice' = NoNotice
  /\ Spawn(MonthlyFreeAmountTask("loadMonthlyFreeAmount", year, FALSE), MaxRuns)
  /\ UNCHANGED <<clientVars, activeTab, bootLoading, recurringView, monthView,
                 monthlyFreeAmountResult, debtorView, debtView, boot, server>>

RefreshBackend(owes) ==
  IF owes
  THEN [MonthBackend(TRUE, {}) EXCEPT !.recurring.FIXED = <<Expense(1, 1)>>,
                                      !.madeExpenses = 1]
  ELSE ServerWith(<<>>, <<>>)

InitRefresh ==
  \E owes \in BOOLEAN, tab \in {"debtors", "debtorProfile", "recurring", "salary"} :
    StartedOn(RefreshBackend(owes), tab)

NextRefresh ==
  \/ \E name \in {<<"x">>} : SetDebtorFormName(name)
  \/ handleCreateDebtor
  \/ \E i \in 1..MaxTasks : HandleCreateDebtorCreated(i)
  \/ \E i \in 1..MaxTasks : ReloadDebtorsDeliver(i)
  \/ \E m \in Months : SetQueryMonth(m)
  \/ runUnpaidByMonthQuery
  \/ \E i \in 1..MaxTasks : LoadDebtorMonthDataUnpaid(i)
  \/ \E i \in 1..MaxTasks : LoadDebtorMonthDataFree(i)
  \/ \E i \in 1..MaxTasks : LoadDebtorMonthDataSnapshot(i)
  \/ \E k \in 1..MaxDebts : openDebtDetailFromInstallment(k)
  \/ CloseDebtDetail
  \/ \E i \in 1..MaxTasks : LoadDebtDetailDeliver(i)
  \/ \E n \in 1..MaxDebts : handlePayInstallment(InstallmentId(n))
  \/ \E i \in 1..MaxTasks : DebtWriteDeliver(i)
  \/ \E type \in ExpenseTypes : ReloadRecurringButton(type)
  \/ \E i \in 1..MaxTasks, k \in 1..2 : ReloadRecurringDeliver(i, k)
  \/ \E year \in Years : SubmitMonthlyFreeAmount(year)
  \/ \E i \in 1..MaxTasks : LoadMonthlyFreeAmountSettle(i)
  \/ \E i \in 1..MaxTasks, k \in 1..2 : Serve(i, k)

SpecRefresh == InitRefresh /\ [][NextRefresh]_vars


\* run i consumes the successful response it is suspended at and is over
RefreshEndsAt(i, op) ==
  /\ tasks[i].op = op
  /\ tasks[i].req[1].st = "served" /\ tasks[i].req[1].out.ok
  /\ tasks'[i].op = "idle"

\* run i of reloadRecurring(type) consumes the second of its two successful reads
ReloadRecurringEndsAt(i) ==
  /\ tasks[i].pc = "reloadRecurring"
  /\ \A k \in 1..2 : /\ tasks[i].req[k].st \in {"served", "delivered"}
                     /\ tasks[i].req[k].out.ok
  /\ tasks'[i].op = "idle"

\* C15: overlapping runs of the same refresh are neither deduplicated nor
\* cancelled.  A call made while another run is in flight starts a run of its
\* own, with its own requests unanswered, and leaves the other run and its
\* request as they are.  Every successful response is applied when it is
\* consumed: the slice becomes the data of that response, whatever was issued
\* before or after (for reloadRecurring, of the list and the total read by the
\* same run, once both have arrived).  And a slice takes new data at no other
\* step, so that it holds the data of the response consumed last.
C15_LastResolvedWins ==
  [][/\ \A i \in 1..MaxTasks :
          LET t == tasks[i]
              r == t.req[1]
          IN
          /\ (t.op = "idle" /\ tasks'[i].op # "idle")
             => /\ \A k \in 1..Len(tasks'[i].req) : tasks'[i].req[k].st = "sent"
                /\ \A j \in 1..MaxTasks \ {i} : tasks'[j] = [tasks[j] EXCEPT !.solo = FALSE]
          /\ ReloadAppliedAt(i) => debtors' = r.out.value.debtors
          /\ RefreshEndsAt(i, "loadMonthlyFreeAmount")
             => monthlyFreeAmountResult' = Some(r.out.value)
          /\ MonthReadEndsAt(i, "getUnpaidInstallmentsByMonth", TRUE)
             => unpaidByMonthResult' = Some(r.out.value)
          /\ MonthReadEndsAt(i, "getSalarySnapshot", TRUE)
             => salarySnapshot' = Some(r.out.value)
          /\ RefreshEndsAt(i, "loadDebtDetail") => debtDetail' = Some(r.out.value.debt)
          /\ ReloadRecurringEndsAt(i)
             => /\ recurringExpenses'[r.arg.type] = r.out.value.recurringExpenses
                /\ recurringTotals'[r.arg.type] = t.req[2].out.value.total
     /\ debtors' # debtors => \E i \in 1..MaxTasks : ReloadAppliedAt(i)
     /\ (monthlyFreeAmountResult' # monthlyFreeAmountResult
         /\ monthlyFreeAmountResult' # Null)
        => \E i \in 1..MaxTasks : RefreshEndsAt(i, "loadMonthlyFreeAmount")
     /\ (unpaidByMonthResult' # unpaidByMonthResult /\ unpaidByMonthResult' # Null)
        => \E i \in 1..MaxTasks : MonthReadEndsAt(i, "getUnpaidInstallmentsByMonth", TRUE)
     /\ (debtDetail' # debtDetail /\ debtDetail' # Null)
        => \E i \in 1..MaxTasks : RefreshEndsAt(i, "loadDebtDetail")
     /\ (recurringExpenses' # recurringExpenses \/ recurringTotals' # recurringTotals)
        => \E i \in 1..MaxTasks : ReloadRecurringEndsAt(i)]_vars

\* two runs of loadDebtorMonthData for different months are in flight; the
\* unpaid installments of both have arrived and the result on display is that
\* of the run called first, whose response therefore arrived last
C15_Witness ==
  /\ hist.runs = 2
  /\ \A i \in 1..MaxTasks : tasks[i].op = "loadDebtorMonthData"
  /\ tasks[1].pc = "getMonthlyFreeAmount"
  /\ tasks[2].pc \in {"getMonthlyFreeAmount", "getSalarySnapshot"}
  /\ tasks[1].cap.month # tasks[2].cap.month
  /\ unpaidByMonthResult # Null
  /\ unpaidByMonthResult[1].month = tasks[1].cap.month
  /\ debtorMonthlyQuery.month = tasks[2].cap.month


\* the step in which run i consumes the failure of a call it awaits
CallFailsAt(i) ==
  /\ tasks[i].op # "idle"
  /\ \E k \in 1..Len(tasks[i].req) :
       tasks[i].req[k].st = "served" /\ ~tasks[i].req[k].out.ok
  /\ tasks'[i].op # tasks[i].op \/ tasks'[i].pc # tasks[i].pc

\* the error that run i consumes in such a step (a run of reloadRecurring may
\* hold two failed reads; its caller shows neither)
FailureAt(i) ==
  LET k == CHOOSE k \in 1..Len(tasks[i].req) :
             tasks[i].req[k].st = "served" /\ ~tasks[i].req[k].out.ok
  IN tasks[i].req[k].out.err

\* the text the spec gives to a thrown value: its message if it is an Error
\* with one, and the generic fallback text otherwise
NoticeText(err) ==
  IF err.cls = "none" \/ err.message = <<>>
  THEN <<"Ocurrio un error inesperado.">> ELSE err.message

\* values a handler can catch: the client's errors, an Error without a
\* message, and a thrown value that is not an Error
ThrownValues ==
  {FetchTypeError, JsonSyntaxError, ApiClientError(<<"x">>, 404),
   ApiClientError(HttpMessage(500), 500),
   [cls |-> "Error", message |-> <<>>, status |-> 0],
   [cls |-> "none", message |-> <<"x">>, status |-> 0]}

\* whether run i awaits the snapshot read and the failure is the 404 of a
\* snapshot that is not materialized, which the spec does not count as a failure
SnapshotMissingAt(i) ==
  /\ tasks[i].op = "loadDebtorMonthData" /\ tasks[i].pc = "getSalarySnapshot"
  /\ SnapshotNotMaterialized(FailureAt(i))

PaymentCompletesAt(i) ==
  LET t == tasks[i] IN
  /\ t.op \in {"loadDebtorMonthData", "loadDebtDetail"}
  /\ t.cap.caller = "handlePayInstallment"
  /\ t.solo
  /\ t.req[1].st = "served"
  /\ t.req[1].out.ok \/ SnapshotMissingAt(i)
  /\ tasks'[i].op = "idle"

\* C17 as stated, for pay-installment: when the payment, the re-read of the
\* debtors and the refreshes that follow have all succeeded and are over, the
\* notice is the success notice of the payment.
C17_AsStated ==
  [][\A i \in 1..MaxTasks :
       PaymentCompletesAt(i) => notice' = SuccessNotice("Cuota marcada como pagada.")]_vars


\* C18 as stated: no error of a client call started by a user action escapes
\* as an unhandled promise rejection; each is caught and shown as a notice.
C18_AsStated == ~hist.unhandled


(***************************************************************************)
(* C19: one HTTP request per call of a client operation, never retried     *)
(***************************************************************************)
\* the calls of the client that the handler runs hold, before and after a step
CallsOf(ts) ==
  UNION {{ts[i].req[k] : k \in 1..Len(ts[i].req)} : i \in 1..MaxTasks}

\* the operations whose call fails in a step in which run i consumes it
FailedApisAt(i) ==
  {tasks[i].req[k].api : k \in {k \in 1..Len(tasks[i].req) :
                                  tasks[i].req[k].st = "served" /\ ~tasks[i].req[k].out.ok}}

\* C19: each call of a client operation issues exactly one HTTP request, with
\* the verb and the path of its operation (two calls of one operation never
\* differ in them); once the call has its response or failure no further
\* request is issued for it; and when a run consumes a failed call, neither
\* that run nor any other issues the failed operation again in that step.
C19_OneRequest ==
  /\ [](\A r \in CallsOf(tasks) : r.fetches = 1)
  /\ [][/\ \A r \in CallsOf(tasks), q \in CallsOf(tasks) \cup CallsOf(tasks') :
             r.api = q.api => r.method = q.method /\ r.path = q.path
        /\ \A i \in 1..MaxTasks : \A k \in 1..Len(tasks[i].req) :
             (/\ tasks[i].req[k].st # "sent"
              /\ tasks'[i].op = tasks[i].op /\ tasks'[i].pc = tasks[i].pc)
               => /\ k \in 1..Len(tasks'[i].req)
                  /\ tasks'[i].req[k].st # "sent"
                  /\ tasks'[i].req[k].fetches = 1
        /\ \A i \in 1..MaxTasks :
             CallFailsAt(i)
               => /\ \A k \in 1..Len(tasks'[i].req) :
                       tasks'[i].req[k].st = "sent"
                         => tasks'[i].req[k].api \notin FailedApisAt(i)
                  /\ \A j \in (1..MaxTasks) \ {i} : tasks'[j].req = tasks[j].req]_vars

\* a run holds a call that failed after its one request
C19_Witness ==
  \E i \in 1..MaxTasks :
    /\ tasks[i].op # "idle"
    /\ \E k \in 1..Len(tasks[i].req) :
         /\ tasks[i].req[k].st = "served" /\ ~tasks[i].req[k].out.ok
         /\ tasks[i].req[k].fetches = 1
         /\ tasks[i].req[k].method \in {"POST", "PATCH"}


(***************************************************************************)
(* C20: the error message of a failed report download                      *)
(***************************************************************************)
\* C20 as stated: for a non-2xx response of any client operation, the report
\* download through requestBlob included, the thrown error's message is the
\* body's `message` when the body parses as JSON with a string message that is
\* not blank, and "HTTP <status>" only otherwise.
C20_AsStated ==
  (call.pc = "settled" /\ call.fn \in ClientFns /\ Non2xx(call.net)) =>
    /\ ~call.out.ok
    /\ call.out.err.message =
         IF StringMessage(call.net.body) /\ NonBlank(call.net.body.v[1].message.s)
         THEN call.net.body.v[1].message.s
         ELSE GenericText(call.net.status)


(***************************************************************************)
(* C21: what request resolves to on a 2xx response                         *)
(***************************************************************************)
Is2xx(net) == net.net = "response" /\ net.status \in 200..299

\* C21 as stated: a 204 response makes request resolve to undefined without
\* parsing the body, and every other 2xx response makes it resolve to the
\* parsed JSON body.
C21_AsStated ==
  (call.pc = "settled" /\ call.fn = "request" /\ Is2xx(call.net)) =>
    IF call.net.status = 204
    THEN call.out = Return(Undefined)
    ELSE call.out.ok /\ call.net.body.t = "json"
           /\ call.out.value = call.net.body.v[1].data

\* C21, amended: a 204 response makes request resolve to undefined whatever
\* its body is (an empty body or one that is not JSON included, so the body is
\* not parsed); every other 2xx response is parsed as JSON, and request
\* resolves to the parsed body when it parses and rejects with the parser's
\* SyntaxError when it does not.
C21_NoContent ==
  (call.pc = "settled" /\ call.fn = "request" /\ Is2xx(call.net)) =>
    IF call.net.status = 204
    THEN call.out = Return(Undefined)
    ELSE IF call.net.body.t = "json"
    THEN call.out = Return(call.net.body.v[1].data)
    ELSE call.out = Throw(JsonSyntaxError)

\* a 204 whose body could not have been parsed has resolved to undefined
C21_Witness ==
  /\ call.pc = "settled" /\ call.fn = "request"
  /\ call.net = Response(204, [t |-> "empty", v |-> <<>>])
  /\ call.out = Return(Undefined)


(***************************************************************************)
(* C22: an installment is paid at most once from the client                *)
(***************************************************************************)
\* run i starts in this step by issuing the pay request of an installment
PayIssuedAt(i, installmentId) ==
  /\ tasks[i].op = "idle"
  /\ tasks'[i].op = "handlePayInstallment" /\ tasks'[i].pc = "payInstallment"
  /\ tasks'[i].req[1].api = "payInstallment"
  /\ tasks'[i].req[1].arg.id = installmentId

\* C22 as stated: no pay request is issued for an installment for which a pay
\* request has already succeeded, whatever the user does, clicks made before
\* the view has been refreshed included.
C22_AsStated ==
  [][\A i \in 1..MaxTasks : \A id \in hist.paid : ~PayIssuedAt(i, id)]_vars


(***************************************************************************)
(* C23: a failed start changes no slice of the state                       *)
(***************************************************************************)
\* C23: once one of the five reads of loadInitialData has failed, the debtor
\* list, both recurring lists, both totals and both debtor selections have
\* their initial values, whatever the other reads returned, and no load of
\* the monthly free amount has been started.
C23_AllOrNothing ==
  boot.pc = "failed" =>
    /\ debtors = <<>>
    /\ recurringExpenses = EMPTY_RECURRING
    /\ recurringTotals = EMPTY_TOTALS
    /\ debtForm.debtorId = ""
    /\ debtorMonthlyQuery.debtorId = ""
    /\ monthlyFreeAmountLoading = FALSE /\ monthlyFreeAmountResult = Null
    /\ \A i \in 1..MaxTasks : tasks[i] = IdleTask

\* the start has failed although the debtors and the fixed expenses, both
\* non-empty, were read and delivered before the failure
C23_Witness ==
  /\ boot.pc = "failed"
  /\ boot.req[1].st = "delivered" /\ boot.req[1].out.ok
  /\ boot.req[1].out.value.debtors # <<>>
  /\ boot.req[2].st = "delivered" /\ boot.req[2].out.ok
  /\ boot.req[2].out.value.recurringExpenses # <<>>
  /\ debtors = <<>>


(***************************************************************************)
(* C24: a scoped reload stores the list and the total together or not at   *)
(* all                                                                     *)
(***************************************************************************)
\* run i is a reload of partition type that ends in this step with both reads
\* successful
ReloadRecurringAppliesAt(i, type) ==
  /\ tasks[i].pc = "reloadRecurring" /\ tasks'[i].pc # "reloadRecurring"
  /\ tasks[i].req[1].arg.type = type
  /\ \A k \in 1..2 : tasks[i].req[k].st \in {"served", "delivered"} /\ tasks[i].req[k].out.ok

\* run i is a reload that ends in this step because one of its reads failed
ReloadRecurringFailsAt(i) ==
  /\ tasks[i].pc = "reloadRecurring" /\ tasks'[i].pc # "reloadRecurring"
  /\ \E k \in 1..2 : tasks[i].req[k].st = "served" /\ ~tasks[i].req[k].out.ok

\* C24: when the list read or the total read of a scoped reload fails, both
\* recurringExpenses and recurringTotals stay as they are, also when the other
\* read had already succeeded; and the list or the total of a partition only
\* ever changes in a step in which one reload of that partition stores both
\* its list read and its total read.
C24_PairAtomic ==
  [][/\ \A i \in 1..MaxTasks :
          ReloadRecurringFailsAt(i)
            => recurringExpenses' = recurringExpenses /\ recurringTotals' = recurringTotals
     /\ \A type \in ExpenseTypes :
          (\/ recurringExpenses'[type] # recurringExpenses[type]
           \/ recurringTotals'[type] # recurringTotals[type])
            => \E i \in 1..MaxTasks :
                 /\ ReloadRecurringAppliesAt(i, type)
                 /\ recurringExpenses'[type] = tasks[i].req[1].out.value.recurringExpenses
                 /\ recurringTotals'[type] = tasks[i].req[2].out.value.total]_vars

\* a reload has read a list that differs from the held one and its total read
\* has failed: the next step of the run drops the list
C24_Witness ==
  \E i \in 1..MaxTasks :
    /\ tasks[i].pc = "reloadRecurring"
    /\ tasks[i].req[1].st = "delivered" /\ tasks[i].req[1].out.ok
    /\ tasks[i].req[1].out.value.recurringExpenses
         # recurringExpenses[tasks[i].req[1].arg.type]
    /\ tasks[i].req[2].st = "served" /\ ~tasks[i].req[2].out.ok


(***************************************************************************)
(* C25: the loading flags while loads overlap                              *)
(***************************************************************************)
\* whether a run of the load function named op is in flight
LoadInFlight(op) == \E i \in 1..MaxTasks : tasks[i].op = op

\* C25 as stated: each loading flag is true in every state in which at least
\* one run of its load is in flight, overlapping runs included, and false once
\* none is in flight.
C25_AsStated ==
  /\ unpaidByMonthLoading = LoadInFlight("loadDebtorMonthData")
  /\ debtDetailLoading = LoadInFlight("loadDebtDetail")
  /\ monthlyFreeAmountLoading = LoadInFlight("loadMonthlyFreeAmount")


(***************************************************************************)
(* SpecDetail: the debt detail dialog.  The first debtor has two debts     *)
(* with an installment due this month each; the first debt has six         *)
(* installments (two pages), the second one.  The user queries the month,  *)
(* opens and closes details, turns pages and pays.                         *)
(***************************************************************************)
DetailInstallment(n, debt, paid) ==
  [id |-> InstallmentId(n), debtId |-> DebtId(debt), debtorId |-> DebtorIdOf(1),
   amount |-> 1, paid |-> paid, year |-> CurrentYear, month |-> CurrentMonth]

DetailBackend ==
  [ServerWith(<<[Debtor(1) EXCEPT !.totalDebt = 2], Debtor(2)>>, <<>>) EXCEPT
     !.installments = <<DetailInstallment(1, 1, FALSE), DetailInstallment(2, 2, FALSE),
                        DetailInstallment(3, 1, TRUE), DetailInstallment(4, 1, TRUE),
                        DetailInstallment(5, 1, TRUE), DetailInstallment(6, 1, TRUE),
                        DetailInstallment(7, 1, TRUE)>>,
     !.madeDebts = 2]

InitDetail == StartedOn(DetailBackend, "debtorProfile")

NextDetail ==
  \/ runUnpaidByMonthQuery
  \/ \E i \in 1..MaxTasks : LoadDebtorMonthDataUnpaid(i)
  \/ \E i \in 1..MaxTasks : LoadDebtorMonthDataFree(i)
  \/ \E i \in 1..MaxTasks : LoadDebtorMonthDataSnapshot(i)
  \/ \E k \in 1..2 : openDebtDetailFromInstallment(k)
  \/ \E i \in 1..MaxTasks : LoadDebtDetailDeliver(i)
  \/ CloseDebtDetail
  \/ PreviousDebtDetailPage
  \/ NextDebtDetailPage
  \/ \E n \in 1..2 : handlePayInstallment(InstallmentId(n))
  \/ \E i \in 1..MaxTasks : DebtWriteDeliver(i)
  \/ \E i \in 1..MaxTasks : ReloadDebtorsDeliver(i)
  \/ \E i \in 1..MaxTasks, k \in 1..1 : Serve(i, k)

SpecDetail == InitDetail /\ [][NextDetail]_vars

(***************************************************************************)
(* C26: the detail held and the debt the dialog was opened for             *)
(***************************************************************************)
\* C26 as stated: whenever the detail dialog is open and a detail is held, the
\* detail is the one of the debt the dialog was opened for, whatever the
\* interleaving of overlapping runs of loadDebtDetail.
C26_AsStated ==
  (debtDetailModal # Null /\ debtDetail # Null)
    => debtDetail[1].id = debtDetailModal[1].debtId


(***************************************************************************)
(* C27: the page of the debt detail                                        *)
(***************************************************************************)
\* the installments of the held debt detail, none when no detail is held
HeldInstallments == IF debtDetail # Null THEN Len(debtDetail[1].installments) ELSE 0

\* ceil(n / 5), at least 1
PagesFor(n) == IF n <= 5 THEN 1 ELSE (n + 4) \div 5

\* C27 as stated: in every reachable state the page of the debt detail is at
\* least 1 and at most max(1, ceil(installments of the held detail / 5)), so
\* that the visible page of a non-empty list is never empty.
C27_AsStated ==
  /\ 1 <= debtDetailPage /\ debtDetailPage <= PagesFor(HeldInstallments)
  /\ HeldInstallments > 0 => debtDetailVisibleInstallments # <<>>


(***************************************************************************)
(* C28: a closed detail dialog stays closed                                *)
(***************************************************************************)
\* the user opens a detail in this step: openDebtDetailFromInstallment starts
\* a run of loadDebtDetail in a free slot
UserOpensDetail ==
  \E i \in 1..MaxTasks :
    /\ tasks[i].op = "idle"
    /\ tasks'[i].op = "loadDebtDetail" /\ tasks'[i].cap.caller = "user"

\* C28 as stated: a detail dialog that is closed is opened only by the user
\* opening a detail; no run that was in flight when it was closed, the refresh
\* at the end of a payment in particular, opens it again.
C28_AsStated ==
  [][(debtDetailModal = Null /\ debtDetailModal' # Null) => UserOpensDetail]_vars


(***************************************************************************)
(* SpecDelete: the two delete confirmations.  The backend holds a FIXED    *)
(* and an OPTIONAL recurring expense and a debtor with a debt; the user is *)
(* on the recurring tab or on the debtor profile.                          *)
(***************************************************************************)
DeleteBackend ==
  [RefreshBackend(TRUE) EXCEPT !.recurring.OPTIONAL = <<Expense(2, 1)>>,
                               !.madeExpenses = 2]

InitDelete ==
  \E tab \in {"recurring", "debtorProfile"} : StartedOn(DeleteBackend, tab)

NextDelete ==
  \/ \E type \in ExpenseTypes, k \in 1..1 : EditRecurringExpense(type, k)
  \/ CancelRecurringEditing
  \/ handleDeleteRecurringExpense
  \/ \E type \in ExpenseTypes, k \in 1..1 : AskDeleteRecurringExpense(type, k)
  \/ CancelPendingRecurringDelete
  \/ confirmDeleteRecurringExpense
  \/ \E i \in 1..MaxTasks : RecurringWriteDeliver(i)
  \/ \E i \in 1..MaxTasks, k \in 1..2 : ReloadRecurringDeliver(i, k)
  \/ runUnpaidByMonthQuery
  \/ \E i \in 1..MaxTasks : LoadDebtorMonthDataUnpaid(i)
  \/ \E i \in 1..MaxTasks : LoadDebtorMonthDataFree(i)
  \/ \E i \in 1..MaxTasks : LoadDebtorMonthDataSnapshot(i)
  \/ \E k \in 1..1 : openDebtDetailFromInstallment(k)
  \/ \E i \in 1..MaxTasks : LoadDebtDetailDeliver(i)
  \/ CloseDebtDetail
  \/ AskDeleteDebt
  \/ CancelPendingDebtDelete
  \/ confirmDeleteDebt
  \/ \E i \in 1..MaxTasks : DebtWriteDeliver(i)
  \/ \E i \in 1..MaxTasks : ReloadDebtorsDeliver(i)
  \/ \E i \in 1..MaxTasks, k \in 1..2 : Serve(i, k)

SpecDelete == InitDelete /\ [][NextDelete]_vars

(***************************************************************************)
(* C29: a delete request follows a confirmed pending target                *)
(***************************************************************************)
\* run i starts in this step by issuing the delete request api
DeleteIssuedAt(i, api) ==
  /\ tasks[i].op = "idle" /\ tasks'[i].op # "idle"
  /\ tasks'[i].req[1].api = api /\ tasks'[i].req[1].st = "sent"

\* no run issues a delete request in this step
NoDeleteIssued ==
  \A i \in 1..MaxTasks :
    ~DeleteIssuedAt(i, "deleteRecurringExpense") /\ ~DeleteIssuedAt(i, "deleteDebt")

\* C29: a delete request of a recurring expense or of a debt is issued only
\* in a step that starts with a pending target of that kind; the step clears
\* the pending target and the request carries the id of the target that was
\* pending.  A step that clears a pending target without being that
\* confirmation (a cancel) issues no request and starts no run, and no step
\* taken without pending target issues a delete request.
C29_ConfirmedDelete ==
  [][/\ \A i \in 1..MaxTasks :
          /\ DeleteIssuedAt(i, "deleteRecurringExpense")
               => /\ pendingRecurringDelete # Null
                  /\ pendingRecurringDelete' = Null
                  /\ tasks'[i].req[1].arg.id = pendingRecurringDelete[1].id
                  /\ Len(tasks'[i].req) = 1
          /\ DeleteIssuedAt(i, "deleteDebt")
               => /\ pendingDebtDelete # Null
                  /\ pendingDebtDelete' = Null
                  /\ tasks'[i].req[1].arg.debtId = pendingDebtDelete[1].debtId
                  /\ Len(tasks'[i].req) = 1
     /\ (/\ \/ pendingRecurringDelete # Null /\ pendingRecurringDelete' = Null
            \/ pendingDebtDelete # Null /\ pendingDebtDelete' = Null
         /\ NoDeleteIssued)
          => \A i \in 1..MaxTasks : tasks'[i].req = tasks[i].req
     /\ (pendingRecurringDelete = Null /\ pendingDebtDelete = Null) => NoDeleteIssued]_vars

\* the user asked to delete the FIXED expense, cancelled, then asked for the
\* OPTIONAL one and confirmed: the request in flight is for the OPTIONAL one
\* and no target is pending
C29_Witness ==
  /\ pendingRecurringDelete = Null
  /\ \E i \in 1..MaxTasks :
       /\ tasks[i].op = "deleteRecurringExpenseByTarget"
       /\ tasks[i].req[1].api = "deleteRecurringExpense" /\ tasks[i].req[1].st = "sent"
       /\ tasks[i].req[1].arg.id = ExpenseIdOf(2)
  /\ \A i \in 1..MaxTasks :
       tasks[i].op # "idle" => tasks[i].op = "deleteRecurringExpenseByTarget"


(***************************************************************************)
(* SpecWrites: every mutating action, each on its tab, against a backend   *)
(* that holds two recurring expenses and a debtor with a debt.             *)
(***************************************************************************)
InitWrites ==
  \E tab \in {"debtors", "recurring", "debtorProfile"} : StartedOn(DeleteBackend, tab)

NextWrites ==
  \/ \E name \in {<<"x">>} : SetDebtorFormName(name)
  \/ handleCreateDebtor
  \/ \E i \in 1..MaxTasks : HandleCreateDebtorCreated(i)
  \/ \E a \in {1} : SetRecurringFormAmount(a)
  \/ handleCreateRecurringExpense
  \/ \E type \in {"FIXED"}, k \in 1..1 : EditRecurringExpense(type, k)
  \/ \E a \in {2} : SetRecurringEditingAmount(a)
  \/ handleUpdateRecurringExpense
  \/ \E type \in {"OPTIONAL"}, k \in 1..1 : AskDeleteRecurringExpense(type, k)
  \/ confirmDeleteRecurringExpense
  \/ \E i \in 1..MaxTasks : RecurringWriteDeliver(i)
  \/ \E i \in 1..MaxTasks, k \in 1..2 : ReloadRecurringDeliver(i, k)
  \/ runUnpaidByMonthQuery
  \/ \E i \in 1..MaxTasks : LoadDebtorMonthDataUnpaid(i)
  \/ \E i \in 1..MaxTasks : LoadDebtorMonthDataFree(i)
  \/ \E i \in 1..MaxTasks : LoadDebtorMonthDataSnapshot(i)
  \/ openDebtsFromDebtorProfile
  \/ \E a \in {1} : SetDebtFormAmount(a)
  \/ handleCreateDebt
  \/ \E i \in 1..MaxTasks : HandleCreateDebtCreated(i)
  \/ \E k \in 1..1 : openDebtDetailFromInstallment(k)
  \/ \E i \in 1..MaxTasks : LoadDebtDetailDeliver(i)
  \/ AskDeleteDebt
  \/ confirmDeleteDebt
  \/ \E n \in 1..1 : handlePayInstallment(InstallmentId(n))
  \/ \E i \in 1..MaxTasks : DebtWriteDeliver(i)
  \/ \E i \in 1..MaxTasks : ReloadDebtorsDeliver(i)
  \/ \E i \in 1..MaxTasks, k \in 1..2 : Serve(i, k)

SpecWrites == InitWrites /\ [][NextWrites]_vars

(***************************************************************************)
(* C30: a mutating action whose write fails                                *)
(***************************************************************************)
MutatingOps == {"handleCreateDebtor"} \cup RecurringWrites \cup DebtWrites
WritePcs == {"createDebtor", "write", "createDebt", "payInstallment", "deleteDebt"}

\* the view state but the notice, and the same without the pending targets
ViewButNotice ==
  <<activeTab, bootLoading, recurringView, monthView, freeView, debtorView, debtView>>
ViewButNoticeAndPending ==
  <<activeTab, bootLoading, recurringExpenses, recurringTotals, recurringForm,
    recurringEditing, monthView, freeView, debtorView, debtDetailModal, debtDetail,
    debtDetailLoading, debtDetailPage>>

\* the user calls a mutating handler, which runs to the await of its write
MutationStartsAt(i) == tasks[i].op = "idle" /\ tasks'[i].op \in MutatingOps

\* run i consumes the failure of its write
WriteFailsAt(i) ==
  /\ tasks[i].op \in MutatingOps /\ tasks[i].pc \in WritePcs
  /\ tasks[i].req[1].st = "served" /\ ~tasks[i].req[1].out.ok
  /\ tasks'[i].pc # tasks[i].pc

\* C30 as stated: a mutating action whose write call fails changes nothing of
\* the view state but the notice, neither when it is called nor when the
\* failure arrives.
C30_AsStated ==
  [][\A i \in 1..MaxTasks :
       (MutationStartsAt(i) \/ WriteFailsAt(i)) => UNCHANGED ViewButNotice]_vars

\* C30, amended: the failure of the write changes the notice only (the forms,
\* the editing state, the lists and the totals stay as they are) and ends the
\* run; the call of the handler clears the notice and, for the two delete
\* confirmations, the pending delete target, which a failure does not restore;
\* it changes nothing else.
C30_FailedWrite ==
  [][\A i \in 1..MaxTasks :
       /\ WriteFailsAt(i)
            => /\ UNCHANGED ViewButNotice
               /\ notice' = ErrorNotice(toErrorMessage(tasks[i].req[1].out.err))
               /\ tasks'[i] = IdleTask
       /\ MutationStartsAt(i)
            => /\ UNCHANGED ViewButNoticeAndPending
               /\ notice' = NoNotice
               /\ IF tasks'[i].op = "deleteRecurringExpenseByTarget"
                  THEN pendingRecurringDelete # Null /\ pendingRecurringDelete' = Null
                  ELSE UNCHANGED pendingRecurringDelete
               /\ IF tasks'[i].op = "confirmDeleteDebt"
                  THEN pendingDebtDelete # Null /\ pendingDebtDelete' = Null
                  ELSE UNCHANGED pendingDebtDelete]_vars

\* the update of a recurring expense has failed: the edit dialog is still
\* open with the amount typed, and the lists are the ones loaded at the start
C30_Witness ==
  /\ hist.runs = 1
  /\ \A i \in 1..MaxTasks : tasks[i] = IdleTask
  /\ notice.type = "error"
  /\ recurringEditing # Null /\ recurringEditing[1].amount = 2
  /\ recurringExpenses = DeleteBackend.recurring

====
